---- MODULE Spec2Model ----
(***************************************************************************)
(* Model of the everest entity cache and entity cache manager              *)
(* (everest/repositories/memory/cache.py).                                 *)
(*                                                                         *)
(* An entity is an object with an id attribute, a slug attribute and an    *)
(* object identity (tag).  An EntityCache is a record holding the flag     *)
(* allow_none_id, the list `entities` (the only strong references) and the *)
(* two WeakValueDictionary indexes id_map and slug_map, which are modelled *)
(* as functions whose DOMAIN is the set of keys present.                   *)
(*                                                                         *)
(* The module also models the FilterSpecificationBuilder as its tests      *)
(* (everest/tests/test_filtering.py) use it, with specification trees as   *)
(* records, and the Batch that GetCollectionView._create_batch             *)
(* (everest/views/getcollection.py) makes of a sliced collection.          *)
(*                                                                         *)
(* GetCollectionView.__call__ is one action on the collection of a         *)
(* request; OrmDataStore._initialize and EntityRepository.new act on the   *)
(* per-process engine and metadata registries and on the store instances   *)
(* (everest/datastores/orm/store.py, everest/entities/repository.py); the  *)
(* Service is its dictionary of collections                                *)
(* (everest/resources/service.py).                                         *)
(***************************************************************************)
EXTENDS Integers, Sequences, FiniteSets, TLC

\* ------------------------------------------------------------------ bounds

\* The longest entity list an add may produce.
MaxLen == 2

\* The id of an entity that has no id (Python None).
NoneId == 0

\* The slug of an entity that has no slug (Python None).
NoneSlug == "None"

\* The identifiers and the slugs entities carry.
Ids == {1, 2}

Slugs == {"a", "b"}

\* ---------------------------------------------------------------- entities

\* The entity objects a caller may hand to a cache: one object for every id
\* (or none) and slug (or none), and a second object Twin that carries the
\* same id and slug as another one.
Twin == [id |-> 1, slug |-> "a", tag |-> "y"]

Ent == [id : Ids \cup {NoneId}, slug : Slugs \cup {NoneSlug}, tag : {"x"}] \cup {Twin}

\* Entity.__eq__: entities compare equal by their id (the identifier is the
\* identity of an entity).
EntityEq(a, b) == a.id = b.id

\* ---------------------------------------------------------------- helpers

\* d[k] = v on a dictionary.
Put(d, k, v) == [x \in (DOMAIN d) \cup {k} |-> IF x = k THEN v ELSE d[x]]

\* del d[k] / d.pop(k) on a dictionary that holds k.
Drop(d, k) == [x \in (DOMAIN d) \ {k} |-> d[x]]

\* An empty dictionary.
EmptyMap == [x \in {} |-> x]

\* The elements of a list.
Range(s) == {s[i] : i \in 1..Len(s)}

\* list.remove(e): the list without its first element equal to e.
ListIndex(s, e) ==
    IF \E i \in 1..Len(s) : EntityEq(s[i], e)
    THEN CHOOSE i \in 1..Len(s) :
            /\ EntityEq(s[i], e)
            /\ \A j \in 1..(i - 1) : ~EntityEq(s[j], e)
    ELSE 0

ListRemoveAt(s, i) == [j \in 1..(Len(s) - 1) |-> IF j < i THEN s[j] ELSE s[j + 1]]

\* -------------------------------------------------------------- EntityCache

\* EntityCache.__init__
NewCache(allow_none_id) ==
    [allow_none_id |-> allow_none_id,
     entities      |-> << >>,
     id_map        |-> EmptyMap,
     slug_map      |-> EmptyMap]

\* The result of a call: the cache after it and the exception raised ("ok" if
\* none).
Result(c, exc) == [cache |-> c, exc |-> exc]

\* The Python exception class of an outcome.
ExcType(exc) ==
    CASE exc = "ok"            -> "none"
      [] exc = "DuplicateId"   -> "ValueError"
      [] exc = "NoneId"        -> "ValueError"
      [] exc = "DuplicateSlug" -> "ValueError"
      [] exc = "NotInList"     -> "ValueError"
      [] exc = "NotFound"      -> "KeyError"

\* EntityCache.get_by_id: the entity found or NoEntity.
NoEntity == [id |-> NoneId, slug |-> NoneSlug, tag |-> "none"]

get_by_id(c, entity_id) ==
    IF entity_id \in DOMAIN c.id_map THEN c.id_map[entity_id] ELSE NoEntity

has_id(c, entity_id) == entity_id \in DOMAIN c.id_map

get_by_slug(c, entity_slug) ==
    IF entity_slug \in DOMAIN c.slug_map THEN c.slug_map[entity_slug] ELSE NoEntity

has_slug(c, entity_slug) == entity_slug \in DOMAIN c.slug_map

\* EntityCache.iterator: the traversal a fresh iterator makes.
iterator(c) == c.entities

\* Mutant of AddId: an id that is already indexed is overwritten.
AddId_Overwrite(c, e) ==
    IF e.id # NoneId
    THEN Result([c EXCEPT !.id_map = Put(c.id_map, e.id, e)], "ok")
    ELSE IF ~c.allow_none_id
         THEN Result(c, "NoneId")
         ELSE Result(c, "ok")

\* Mutant of AddId: an entity without id is accepted whatever allow_none_id.
AddId_NoneAllowed(c, e) ==
    IF e.id # NoneId
    THEN IF e.id \in DOMAIN c.id_map
         THEN Result(c, "DuplicateId")
         ELSE Result([c EXCEPT !.id_map = Put(c.id_map, e.id, e)], "ok")
    ELSE Result(c, "ok")

\* EntityCache.add, lines 79-84: the id check and the id index entry.
AddId(c, e) ==
    IF e.id # NoneId
    THEN IF e.id \in DOMAIN c.id_map
         THEN Result(c, "DuplicateId")
         ELSE Result([c EXCEPT !.id_map = Put(c.id_map, e.id, e)], "ok")
    ELSE IF ~c.allow_none_id
         THEN Result(c, "NoneId")
         ELSE Result(c, "ok")

\* Mutant of AddSlug: the entity is put in front of the list.
AddSlug_Prepend(c, e) ==
    IF e.slug # NoneSlug
    THEN IF e.slug \in DOMAIN c.slug_map
         THEN Result(c, "DuplicateSlug")
         ELSE Result([c EXCEPT !.slug_map = Put(c.slug_map, e.slug, e),
                               !.entities = <<e>> \o c.entities], "ok")
    ELSE Result([c EXCEPT !.entities = <<e>> \o c.entities], "ok")

\* EntityCache.add, lines 88-92: the slug check, the slug index entry and the
\* append to the entity list.
AddSlug(c, e) ==
    IF e.slug # NoneSlug
    THEN IF e.slug \in DOMAIN c.slug_map
         THEN Result(c, "DuplicateSlug")
         ELSE Result([c EXCEPT !.slug_map = Put(c.slug_map, e.slug, e),
                               !.entities = Append(c.entities, e)], "ok")
    ELSE Result([c EXCEPT !.entities = Append(c.entities, e)], "ok")

\* EntityCache.add
CacheAdd(c, e) ==
    LET r == AddId(c, e)
    IN  IF r.exc # "ok" THEN r ELSE AddSlug(r.cache, e)

\* Mutant of CacheRemove: the id index entry is kept.
CacheRemove_KeepId(c, e) ==
    IF e.id = NoneId
    THEN Result(c, "NoneId")
    ELSE IF e.id \notin DOMAIN c.id_map
    THEN Result(c, "NotFound")
    ELSE LET c2 == [c EXCEPT !.slug_map = Drop(c.slug_map, e.slug)]
             i  == ListIndex(c2.entities, e)
         IN  IF i = 0
             THEN Result(c2, "NotInList")
             ELSE Result([c2 EXCEPT !.entities = ListRemoveAt(c2.entities, i)], "ok")

\* Mutant of CacheRemove: an id that is not indexed is popped with a default
\* instead of deleted, so the slug entry goes and the list lookup raises.
CacheRemove_PopId(c, e) ==
    IF e.id = NoneId
    THEN Result(c, "NoneId")
    ELSE LET c1 == [c EXCEPT !.id_map = Drop(c.id_map, e.id)]
             c2 == [c1 EXCEPT !.slug_map = Drop(c1.slug_map, e.slug)]
             i  == ListIndex(c2.entities, e)
         IN  IF i = 0
             THEN Result(c2, "NotInList")
             ELSE Result([c2 EXCEPT !.entities = ListRemoveAt(c2.entities, i)], "ok")

\* EntityCache.remove
CacheRemove(c, e) ==
    IF e.id = NoneId
    THEN Result(c, "NoneId")
    ELSE IF e.id \notin DOMAIN c.id_map
    THEN Result(c, "NotFound")
    ELSE LET c1 == [c EXCEPT !.id_map = Drop(c.id_map, e.id)]
             c2 == [c1 EXCEPT !.slug_map = Drop(c1.slug_map, e.slug)]
             i  == ListIndex(c2.entities, e)
         IN  IF i = 0
             THEN Result(c2, "NotInList")
             ELSE Result([c2 EXCEPT !.entities = ListRemoveAt(c2.entities, i)], "ok")

\* Mutant of CacheReplace: the id of the new entity is not checked for None.
CacheReplace_NoNoneCheck(c, e) ==
    IF e.id \notin DOMAIN c.id_map
    THEN Result(c, "NotFound")
    ELSE LET old_entity == c.id_map[e.id]
             r == CacheRemove(c, old_entity)
         IN  IF r.exc # "ok" THEN r ELSE CacheAdd(r.cache, e)

\* Mutant of CacheReplace: the old entity is removed from the indexes only.
CacheReplace_KeepOld(c, e) ==
    IF e.id = NoneId
    THEN Result(c, "NoneId")
    ELSE IF e.id \notin DOMAIN c.id_map
    THEN Result(c, "NotFound")
    ELSE LET old_entity == c.id_map[e.id]
             c1 == [c EXCEPT !.id_map = Drop(c.id_map, old_entity.id),
                             !.slug_map = Drop(c.slug_map, old_entity.slug)]
         IN  CacheAdd(c1, e)

\* EntityCache.replace
CacheReplace(c, e) ==
    IF e.id = NoneId
    THEN Result(c, "NoneId")
    ELSE IF e.id \notin DOMAIN c.id_map
    THEN Result(c, "NotFound")
    ELSE LET old_entity == c.id_map[e.id]
             r == CacheRemove(c, old_entity)
         IN  IF r.exc # "ok" THEN r ELSE CacheAdd(r.cache, e)

\* A WeakValueDictionary drops the entries of an object once nothing holds a
\* strong reference to it: the entries of an object that is not in the entity
\* list may vanish at any time.
CacheCollect(c, o) ==
    [c EXCEPT !.id_map   = [k \in {x \in DOMAIN c.id_map : c.id_map[x] # o} |-> c.id_map[k]],
              !.slug_map = [k \in {x \in DOMAIN c.slug_map : c.slug_map[x] # o} |-> c.slug_map[k]]]

Dangling(c) ==
    ({c.id_map[k] : k \in DOMAIN c.id_map} \cup {c.slug_map[k] : k \in DOMAIN c.slug_map})
        \ Range(c.entities)

\* ---------------------------------------------------- filter specifications

\* The attribute names and the values the build calls are made with.
AttrNames == {"age", "name"}

Values == {1, 2}

\* The (lower, upper) tuples build_in_range is called with.
Ranges == {<<1, 2>>, <<2, 2>>}

\* A value list has at most MaxValues values.
MaxValues == 3

\* builder.get_specification() before any build call.
NoSpec == [kind |-> "none"]

\* The leaf specifications, Value<Kind>FilterSpecification(attr_name, ...):
\* a leaf holds its values as a sequence, one value for most kinds, the two
\* bounds for in_range and the whole list for contained.
Leaf(kind, attr_name, values) ==
    [kind |-> "leaf", op |-> kind, attr |-> attr_name, values |-> values]

ValueContained(attr_name, attr_values) == Leaf("contained", attr_name, attr_values)

ValueInRange(attr_name, from, to) == Leaf("in_range", attr_name, <<from, to>>)

\* spec.not_(), left.and_(right), left.or_(right).
Negation(spec) == [kind |-> "not", operand |-> spec]

Conjunction(left, right) == [kind |-> "and", left |-> left, right |-> right]

Disjunction(left, right) == [kind |-> "or", left |-> left, right |-> right]

\* The build_<op> methods of the builder, and for each build_not_<op> the
\* <op> it negates.
PositiveOps ==
    {"equal_to", "starts_with", "ends_with", "contains",
     "less_than_or_equal_to", "less_than",
     "greater_than_or_equal_to", "greater_than", "in_range"}

NotOf ==
    [not_equal_to    |-> "equal_to",
     not_starts_with |-> "starts_with",
     not_ends_with   |-> "ends_with",
     not_contains    |-> "contains",
     not_in_range    |-> "in_range"]

BuildOps == PositiveOps \cup DOMAIN NotOf

IsNot(op) == op \in DOMAIN NotOf

LeafKind(op) == IF IsNot(op) THEN NotOf[op] ELSE op

\* The leaf of one value of a build call: build_in_range unpacks the tuple.
LeafFor(kind, attr_name, value) ==
    IF kind = "in_range"
    THEN ValueInRange(attr_name, value[1], value[2])
    ELSE Leaf(kind, attr_name, <<value>>)

\* The disjunction of a non-empty sequence of specifications, nested to the
\* left: s1.or_(s2).or_(s3).
RECURSIVE OrAll(_)
OrAll(specs) ==
    IF Len(specs) = 1 THEN specs[1]
    ELSE Disjunction(OrAll(SubSeq(specs, 1, Len(specs) - 1)), specs[Len(specs)])

\* Mutant of AndAll: the operands of and_ are exchanged.
RECURSIVE AndAll_Swapped(_)
AndAll_Swapped(specs) ==
    IF Len(specs) = 1 THEN specs[1]
    ELSE Conjunction(specs[Len(specs)], AndAll_Swapped(SubSeq(specs, 1, Len(specs) - 1)))

\* The conjunction of a non-empty sequence of specifications, nested to the
\* left.
RECURSIVE AndAll(_)
AndAll(specs) ==
    IF Len(specs) = 1 THEN specs[1]
    ELSE Conjunction(AndAll(SubSeq(specs, 1, Len(specs) - 1)), specs[Len(specs)])

\* Mutant of BuildSpec: one leaf, of values[0], whatever the values.
BuildSpec_FirstValue(op, attr_name, attr_values) ==
    LET leaf == LeafFor(LeafKind(op), attr_name, attr_values[1])
    IN  IF IsNot(op) THEN Negation(leaf) ELSE leaf

\* Mutant of BuildSpec: equal_to with several values is treated like the
\* other operators.
BuildSpec_NoContained(op, attr_name, attr_values) ==
    LET kind == LeafKind(op)
        spec == OrAll([k \in 1..Len(attr_values) |->
                            LeafFor(kind, attr_name, attr_values[k])])
    IN  IF IsNot(op) THEN Negation(spec) ELSE spec

\* Mutant of BuildSpec: the leaves of several values are joined last value
\* first.
BuildSpec_Reversed(op, attr_name, attr_values) ==
    LET kind == LeafKind(op)
        n    == Len(attr_values)
        spec == IF kind = "equal_to" /\ n > 1
                THEN ValueContained(attr_name, attr_values)
                ELSE OrAll([k \in 1..n |->
                                LeafFor(kind, attr_name, attr_values[n + 1 - k])])
    IN  IF IsNot(op) THEN Negation(spec) ELSE spec

\* Mutant of BuildSpec: build_not_<op> does not negate.
BuildSpec_NotIgnored(op, attr_name, attr_values) ==
    LET kind == LeafKind(op)
    IN  IF kind = "equal_to" /\ Len(attr_values) > 1
        THEN ValueContained(attr_name, attr_values)
        ELSE OrAll([k \in 1..Len(attr_values) |->
                        LeafFor(kind, attr_name, attr_values[k])])

\* The specification one call build_<op>(attr_name, attr_values) contributes:
\* one leaf for one value; for several values the disjunction of the leaves
\* of the values, in their order, except that equal_to gives one ValueContained
\* leaf with all the values; negated for build_not_<op> (which is only
\* called with one value here).
BuildSpec(op, attr_name, attr_values) ==
    LET kind == LeafKind(op)
        spec == IF kind = "equal_to" /\ Len(attr_values) > 1
                THEN ValueContained(attr_name, attr_values)
                ELSE OrAll([k \in 1..Len(attr_values) |->
                                LeafFor(kind, attr_name, attr_values[k])])
    IN  IF IsNot(op) THEN Negation(spec) ELSE spec

\* FilterSpecificationBuilder(factory): nothing built.  The builder keeps,
\* for every attribute name it has seen, in the order of their first calls,
\* what the calls for that name have contributed.
NewBuilder == [parts |-> << >>]

\* The attribute names the builder has seen.
SeenNames(b) == {b.parts[k].attr : k \in 1..Len(b.parts)}

\* The place of an attribute name among the names seen.
PartOf(b, attr_name) == CHOOSE k \in 1..Len(b.parts) : b.parts[k].attr = attr_name

\* The accumulated specification: None, or the conjunction of the
\* contributions of the attribute names.
Specification(b) ==
    IF b.parts = << >> THEN NoSpec
    ELSE AndAll([k \in 1..Len(b.parts) |-> b.parts[k].spec])

\* Mutant of get_specification: the builder is used up by the call.
get_specification_Consumes(b) == [builder |-> NewBuilder, ret |-> Specification(b)]

\* builder.get_specification(): returns the accumulated specification and
\* leaves the builder as it is.
get_specification(b) == [builder |-> b, ret |-> Specification(b)]

\* Mutant of Record: a repeated attribute name joins the new specification
\* by OR to everything built so far.
Record_Toggle(b, attr_name, spec) ==
    IF attr_name \in SeenNames(b)
    THEN [b EXCEPT !.parts =
            <<[attr |-> attr_name, spec |-> Disjunction(Specification(b), spec)]>>]
    ELSE [b EXCEPT !.parts = Append(@, [attr |-> attr_name, spec |-> spec])]

\* Mutant of Record: the contribution of a new attribute name goes in front.
Record_InFront(b, attr_name, spec) ==
    IF attr_name \in SeenNames(b)
    THEN [b EXCEPT !.parts[PartOf(b, attr_name)].spec = Disjunction(@, spec)]
    ELSE [b EXCEPT !.parts = <<[attr |-> attr_name, spec |-> spec]>> \o @]

\* The combination rule: the specification of a call for a new attribute
\* name is joined by AND to what was built; for a name seen before it is
\* joined by OR to what that name has contributed so far.
Record(b, attr_name, spec) ==
    IF attr_name \in SeenNames(b)
    THEN [b EXCEPT !.parts[PartOf(b, attr_name)].spec = Disjunction(@, spec)]
    ELSE [b EXCEPT !.parts = Append(@, [attr |-> attr_name, spec |-> spec])]

\* builder.build_<op>(attr_name, attr_values).
build(b, op, attr_name, attr_values) ==
    Record(b, attr_name, BuildSpec(op, attr_name, attr_values))

\* -------------------------------------------------------------------- Batch

\* A sibling batch that is not defined (None).
None == << >>

\* Batch(start, size, total_size)
Batch(start, size, total_size) ==
    [start |-> start, size |-> size, total_size |-> total_size]

\* The page the batch is, counted from 0.
Batch_index(b) == b.start \div b.size

\* Mutant of Batch_number: the division rounds down.
Batch_number_Floor(b) == b.total_size \div b.size

\* The number of pages: ceil(total_size / size).
Batch_number(b) == (b.total_size + b.size - 1) \div b.size

\* The sibling batches, each a (start, size) pair or None.
Batch_first(b) == IF Batch_number(b) > 0 THEN <<0, b.size>> ELSE None

Batch_previous(b) ==
    IF Batch_index(b) > 0 THEN <<b.start - b.size, b.size>> ELSE None

Batch_next(b) ==
    IF Batch_index(b) < Batch_number(b) - 1 THEN <<b.start + b.size, b.size>> ELSE None

\* Mutant of Batch_last: the last page is computed whatever the number.
Batch_last_Unguarded(b) == <<(Batch_number(b) - 1) * b.size, b.size>>

Batch_last(b) ==
    IF Batch_number(b) > 0 THEN <<(Batch_number(b) - 1) * b.size, b.size>> ELSE None

\* Mutant of create_batch: the stop of the slice is taken for the size.
create_batch_StopAsSize(ctx) ==
    Batch(ctx.slice.start, ctx.slice.stop, ctx.len)

\* Mutant of create_batch: the stop of the slice is taken for the length of
\* the collection.
create_batch_StopAsTotal(ctx) ==
    Batch(ctx.slice.start, ctx.slice.stop - ctx.slice.start, ctx.slice.stop)

\* GetCollectionView._create_batch: the batch of the slice of the collection
\* and of its length.
create_batch(ctx) ==
    Batch(ctx.slice.start, ctx.slice.stop - ctx.slice.start, ctx.len)

\* The slices and lengths of the collections a batch is created for.
MaxStart == 20

MaxSize == 10

MaxTotal == 25

Contexts ==
    {[slice |-> [start |-> start, stop |-> start + size], len |-> total] :
        start \in 0..MaxStart, size \in 1..MaxSize, total \in 0..MaxTotal}

\* A collection that was not sliced by a request, and no batch created.
NoContext == [slice |-> [start |-> 0, stop |-> 0], len |-> 0]

NoBatch == Batch(0, 0, 0)

\* ------------------------------------------------------- GetCollectionView

\* request.params.get(name): None when the parameter is absent, else its
\* string.  A string is modelled by what the converter makes of it: the
\* number it spells, or the fact that the converter rejects it.
NoParam == [kind |-> "none"]

BadParam == [kind |-> "malformed"]

Text(v) == [kind |-> "text", value |-> v]

\* The largest start and size a request asks for, the largest configured
\* limit and the longest collection.
MaxReqStart == 4

MaxReqSize == 4

MaxLimit == 3

MaxCount == 4

\* request.params: the q, sort, start and size parameters of a request.
Params ==
    [q     : {NoParam, BadParam, Text(1)},
     sort  : {NoParam, BadParam, Text(1)},
     start : {NoParam, BadParam} \cup {Text(n) : n \in 0..MaxReqStart},
     size  : {NoParam, BadParam} \cup {Text(n) : n \in 1..MaxReqSize}]

\* The outcome of a step on the collection: the collection and the exception.
Step(ctx, exc) == [ctx |-> ctx, exc |-> exc]

\* UrlPartsConverter.make_filter_specification, make_order_specification and
\* make_slice_key: the object made of the string, or ValueError.
Unset == [kind |-> "unset"]

make_filter_specification(query_string) ==
    IF query_string.kind = "text" THEN [kind |-> "filter", of |-> query_string.value]
    ELSE [kind |-> "ValueError"]

make_order_specification(order_string) ==
    IF order_string.kind = "text" THEN [kind |-> "order", of |-> order_string.value]
    ELSE [kind |-> "ValueError"]

make_slice_key(start_string, size_string) ==
    IF start_string.kind = "text" /\ size_string.kind = "text"
    THEN [kind |-> "slice", start |-> start_string.value,
          stop |-> start_string.value + size_string.value]
    ELSE [kind |-> "ValueError"]

\* GetCollectionView.__filter_collection
filter_collection(ctx, params) ==
    IF params.q.kind # "none"
    THEN LET filter_spec == make_filter_specification(params.q)
         IN  IF filter_spec.kind = "ValueError"
             THEN Step(ctx, "ValueError")
             ELSE Step([ctx EXCEPT !.filter = filter_spec], "ok")
    ELSE Step(ctx, "ok")

\* GetCollectionView.__order_collection
order_collection(ctx, params) ==
    IF params.sort.kind # "none"
    THEN LET order_spec == make_order_specification(params.sort)
         IN  IF order_spec.kind = "ValueError"
             THEN Step(ctx, "ValueError")
             ELSE Step([ctx EXCEPT !.order = order_spec], "ok")
    ELSE Step(ctx, "ok")

\* Mutant of slice_collection: the maximum batch size is not applied.
slice_collection_NoClamp(ctx, params) ==
    LET start_string == IF params.start.kind = "none" THEN Text(0) ELSE params.start
        size_string == IF params.size.kind = "none"
                       THEN Text(ctx.default_limit) ELSE params.size
        slice_key == make_slice_key(start_string, size_string)
    IN  IF slice_key.kind = "ValueError"
        THEN Step(ctx, "ValueError")
        ELSE Step([ctx EXCEPT !.slice = [start |-> slice_key.start,
                                         stop |-> slice_key.stop]], "ok")

\* GetCollectionView.__slice_collection
slice_collection(ctx, params) ==
    LET start_string == IF params.start.kind = "none" THEN Text(0) ELSE params.start
        size_string == IF params.size.kind = "none"
                       THEN Text(ctx.default_limit) ELSE params.size
        slice_key == make_slice_key(start_string, size_string)
    IN  IF slice_key.kind = "ValueError"
        THEN Step(ctx, "ValueError")
        ELSE LET stop == IF slice_key.stop - slice_key.start > ctx.max_limit
                         THEN slice_key.start + ctx.max_limit
                         ELSE slice_key.stop
             IN  Step([ctx EXCEPT !.slice = [start |-> slice_key.start,
                                             stop |-> stop]], "ok")

\* Link(collection, rel, title): the relation and the slice of the collection
\* the link points to.
Link(rel, slice) == [rel |-> rel, slice |-> slice]

\* GetCollectionView._create_nav_link: the link to a clone of the collection
\* sliced as the sibling batch says; batch.start of None raises.
create_nav_link(sibling, rel) ==
    IF sibling = None
    THEN [kind |-> "AttributeError"]
    ELSE [kind |-> "link",
          link |-> Link(rel, [start |-> sibling[1], stop |-> sibling[1] + sibling[2]])]

\* The navigation links __call__ asks for, in its order: the relation and the
\* sibling batch of each condition that holds.
Wanted(cond, rel, sibling) ==
    IF cond THEN <<[rel |-> rel, sibling |-> sibling]>> ELSE << >>

NavLinks(b) ==
    Wanted(Batch_index(b) > 0, "first", Batch_first(b))
    \o Wanted(Batch_previous(b) # None, "previous", Batch_previous(b))
    \o Wanted(Batch_next(b) # None, "next", Batch_next(b))
    \o Wanted(Batch_index(b) # Batch_number(b) - 1, "last", Batch_last(b))

\* The links are created and added one after the other; the first one that
\* cannot be created ends the call with its exception.
RECURSIVE add_nav_links(_, _)
add_nav_links(ctx, wanted) ==
    IF wanted = << >>
    THEN Step(ctx, "ok")
    ELSE LET made == create_nav_link(Head(wanted).sibling, Head(wanted).rel)
         IN  IF made.kind = "link"
             THEN add_nav_links([ctx EXCEPT !.links = Append(@, made.link)],
                                Tail(wanted))
             ELSE Step(ctx, made.kind)

\* What a call of the view leaves: the collection, the batch it created, the
\* kind of its result ("batch" for dict(batch=batch), "error" for the response
\* of _handle_unknown_exception, "none" when the call raised) and the
\* exception it raised.
Response(ctx, b, result, raised) ==
    [ctx |-> ctx, batch |-> b, result |-> result, raised |-> raised]

\* Mutant of GetCollectionView_call: the collection is sliced before it is filtered and ordered.
GetCollectionView_call_SliceFirst(ctx, params) ==
    LET s == slice_collection(ctx, params)
    IN  IF s.exc # "ok" THEN Response(s.ctx, NoBatch, "error", "ok")
        ELSE
    LET f == filter_collection(s.ctx, params)
    IN  IF f.exc # "ok" THEN Response(f.ctx, NoBatch, "error", "ok")
        ELSE
    LET o == order_collection(f.ctx, params)
    IN  IF o.exc # "ok" THEN Response(o.ctx, NoBatch, "error", "ok")
        ELSE
    LET b == create_batch(o.ctx)
        n == add_nav_links([o.ctx EXCEPT !.links = Append(@, Link("self", o.ctx.slice))],
                           NavLinks(b))
    IN  IF n.exc # "ok" THEN Response(n.ctx, b, "none", n.exc)
        ELSE Response(n.ctx, b, "batch", "ok")

\* GetCollectionView.__call__
GetCollectionView_call(ctx, params) ==
    LET f == filter_collection(ctx, params)
    IN  IF f.exc # "ok" THEN Response(f.ctx, NoBatch, "error", "ok")
        ELSE
    LET o == order_collection(f.ctx, params)
    IN  IF o.exc # "ok" THEN Response(o.ctx, NoBatch, "error", "ok")
        ELSE
    LET s == slice_collection(o.ctx, params)
    IN  IF s.exc # "ok" THEN Response(s.ctx, NoBatch, "error", "ok")
        ELSE
    LET b == create_batch(s.ctx)
        n == add_nav_links([s.ctx EXCEPT !.links = Append(@, Link("self", s.ctx.slice))],
                           NavLinks(b))
    IN  IF n.exc # "ok" THEN Response(n.ctx, b, "none", n.exc)
        ELSE Response(n.ctx, b, "batch", "ok")

\* The collections a view is called on: not filtered, ordered or sliced yet,
\* without links, with their configured limits and their length.
NoSlice == [start |-> 0, stop |-> 0]

ViewContexts ==
    {[slice |-> NoSlice, len |-> total, default_limit |-> d, max_limit |-> m,
      filter |-> Unset, order |-> Unset, links |-> << >>] :
        total \in 0..MaxCount, d \in 1..MaxLimit, m \in 1..MaxLimit}

\* The request of a view that was not called yet.
NoRequest ==
    [params |-> [q |-> NoParam, sort |-> NoParam, start |-> NoParam, size |-> NoParam],
     result |-> "none", raised |-> "ok", called |-> FALSE]

\* ------------------------------------------- OrmDataStore, EntityRepository

\* The data store instances and the name each was constructed with: two
\* instances share a name.
Stores == {"s1", "s2", "s3"}

StoreName(s) == IF s = "s3" THEN "b" ELSE "a"

StoreNames == {StoreName(s) : s \in Stores}

\* The resources an aggregate is asked for.
Resources == {"foo", "bar"}

\* The most aggregates the repositories create.
MaxAggregates == 2

\* No engine: the bind of a session factory or of a metadata that was bound
\* to nothing.
NoEngine == [name |-> "none", serial |-> 0]

\* store.session_factory: None, or the factory and the engine it is bound to.
NoFactory == [made |-> FALSE, bind |-> NoEngine]

\* OrmDataStore._make_session_factory
make_session_factory == [made |-> TRUE, bind |-> NoEngine]

\* The engine and metadata registries of the process (both empty), the store
\* instances as constructed, the aggregates created so far, the count of the
\* engines and metadata made for each name, and the last call.
NewStores ==
    [engines    |-> EmptyMap,
     metadata   |-> EmptyMap,
     inst       |-> [s \in Stores |-> NoFactory],
     aggregates |-> << >>,
     made       |-> [engine   |-> [n \in StoreNames |-> 0],
                     metadata |-> [n \in StoreNames |-> 0]],
     last       |-> [op |-> "none", store |-> "none", exc |-> "ok"]]

\* The outcome of a call on the stores.
Outcome(st, op, s, exc) ==
    [st EXCEPT !.last = [op |-> op, store |-> s, exc |-> exc]]

\* The first part of _initialize: the engine of the store's name, made and
\* registered if none is registered yet, and then bound to the session
\* factory of this instance (None.configure raises AttributeError).
WithEngine(st, s) ==
    LET name == StoreName(s)
    IN  IF name \notin DOMAIN st.engines
        THEN LET engine == [name |-> name, serial |-> st.made.engine[name] + 1]
                 set == [st EXCEPT !.engines = Put(@, name, engine),
                                   !.made.engine[name] = @ + 1]
             IN  IF st.inst[s].made
                 THEN [st |-> [set EXCEPT !.inst[s].bind = engine],
                       engine |-> engine, exc |-> "ok"]
                 ELSE [st |-> set, engine |-> engine, exc |-> "AttributeError"]
        ELSE [st |-> st, engine |-> st.engines[name], exc |-> "ok"]

\* Mutant of initialize: the engine is made anew whatever is registered.
initialize_AlwaysNewEngine(st, s, md_fac_raises) ==
    LET name == StoreName(s)
        engine == [name |-> name, serial |-> st.made.engine[name] + 1]
        e == [st EXCEPT !.engines = Put(@, name, engine),
                        !.made.engine[name] = @ + 1]
    IN  IF name \notin DOMAIN e.metadata
        THEN Outcome([e EXCEPT !.metadata = Put(@, name, [serial |-> 1, bind |-> engine]),
                               !.made.metadata[name] = @ + 1],
                     "_initialize", s, "ok")
        ELSE Outcome([e EXCEPT !.metadata[name].bind = engine], "_initialize", s, "ok")

\* OrmDataStore._initialize; md_fac_raises says whether the configured
\* metadata factory raises when it is called.
initialize(st, s, md_fac_raises) ==
    LET name == StoreName(s)
        e == WithEngine(st, s)
    IN  IF e.exc # "ok"
        THEN Outcome(e.st, "_initialize", s, e.exc)
        ELSE IF name \notin DOMAIN e.st.metadata
        THEN IF md_fac_raises
             THEN Outcome(e.st, "_initialize", s, "Exception")
             ELSE Outcome([e.st EXCEPT
                              !.metadata = Put(@, name,
                                  [serial |-> e.st.made.metadata[name] + 1,
                                   bind |-> e.engine]),
                              !.made.metadata[name] = @ + 1],
                          "_initialize", s, "ok")
        ELSE Outcome([e.st EXCEPT !.metadata[name].bind = e.engine],
                     "_initialize", s, "ok")

\* Mutant of new: the session factory is called without being looked at.
new_Unchecked(st, s, rc) ==
    Outcome([st EXCEPT !.aggregates =
                 Append(@, [entity_cls |-> rc,
                            session |-> [store |-> s, bind |-> st.inst[s].bind]])],
            "new", s, "ok")

\* EntityRepository.new of the repository that owns store s.
new(st, s, rc) ==
    LET session_factory == st.inst[s]
    IN  IF ~session_factory.made
        THEN Outcome(st, "new", s, "RuntimeError")
        ELSE Outcome([st EXCEPT !.aggregates =
                         Append(@, [entity_cls |-> rc,
                                    session |-> [store |-> s,
                                                 bind |-> session_factory.bind]])],
                     "new", s, "ok")

\* ----------------------------------------------------------------- Service

\* The collection classes, the interfaces registered for some of them, and
\* the name of the root collection of each class: two classes share a name.
Classes == {"FooCollection", "BarCollection", "FooArchive", "BazCollection"}

Interfaces == {"IFoo", "IBar"}

\* get_utility(collection, 'collection-class')
get_utility(i) == IF i = "IFoo" THEN "FooCollection" ELSE "BarCollection"

\* get_collection(collection): the root collection of the class.
get_collection(cls) ==
    [cls |-> cls,
     name |-> CASE cls = "FooCollection" -> "foos"
                [] cls = "BarCollection" -> "bars"
                [] cls = "FooArchive" -> "foos"
                [] cls = "BazCollection" -> "bazs"]

\* The keys of Service.__collections: a collection class or a name; a
\* collection object is a key that no add ever stores.
ClassKey(cls) == [kind |-> "class", id |-> cls]

NameKey(name) == [kind |-> "name", id |-> name]

ObjectKey(coll) == [kind |-> "object", id |-> coll.cls]

Keys == {ClassKey(c) : c \in Classes} \cup {NameKey(get_collection(c).name) : c \in Classes}

\* What the argument of add and remove stands for: an interface is looked up.
Resolve(collection) ==
    IF collection \in Interfaces THEN get_utility(collection) ELSE collection

\* The default that get returns for a missing key.
Default == [cls |-> "none", name |-> "none"]

\* The outcome of a call on the service: its dictionary and the exception.
Done(d, exc) == [collections |-> d, exc |-> exc]

\* Mutant of Service_add: the name is not looked up before it is written.
Service_add_NameUnchecked(d, arg) ==
    LET collection == Resolve(arg)
        coll == get_collection(collection)
    IN  IF ClassKey(collection) \in DOMAIN d
        THEN Done(d, "ValueError")
        ELSE Done(Put(Put(d, ClassKey(collection), coll), NameKey(coll.name), coll), "ok")

\* Service.add
Service_add(d, arg) ==
    LET collection == Resolve(arg)
        coll == get_collection(collection)
    IN  IF ClassKey(collection) \in DOMAIN d
        THEN Done(d, "ValueError")
        ELSE IF NameKey(coll.name) \in DOMAIN d
        THEN Done(d, "ValueError")
        ELSE Done(Put(Put(d, ClassKey(collection), coll), NameKey(coll.name), coll), "ok")

\* Service.remove: the first del is given the collection object, the second
\* the name.
Service_remove(d, arg) ==
    LET collection == Resolve(arg)
    IN  IF ClassKey(collection) \notin DOMAIN d
        THEN Done(d, "ValueError")
        ELSE LET coll == d[ClassKey(collection)]
             IN  IF ObjectKey(coll) \notin DOMAIN d
                 THEN Done(d, "KeyError")
                 ELSE LET d1 == Drop(d, ObjectKey(coll))
                      IN  IF NameKey(coll.name) \notin DOMAIN d1
                          THEN Done(d1, "KeyError")
                          ELSE Done(Drop(d1, NameKey(coll.name)), "ok")

\* Service.get(name, default): a clone of the collection under the key.
Service_get(d, key) == IF key \in DOMAIN d THEN d[key] ELSE Default

\* Service.__len__
Service_len(d) == Cardinality(DOMAIN d) \div 2

\* Service.__iter__: how often iteration yields the collection coll.
Service_iter_count(d, coll) ==
    Cardinality({k \in DOMAIN d : k.kind = "name" /\ d[k] = coll})

\* A service as constructed: no collection, nothing registered, no call.
NewService ==
    [collections |-> EmptyMap,
     registered  |-> {},
     last        |-> [op |-> "none", arg |-> "none", exc |-> "ok", ret |-> Default]]

\* ------------------------------------------------------------------- state

VARIABLES
    cache,      \* the EntityCache under test
    last,       \* the last call: its operation, its argument and its outcome
    order,      \* the entities added successfully and not removed since, in add order
    iters,      \* the list iterators that callers of iterator() hold
    mgr,        \* the EntityCacheManager and the EntityCache objects it created
    mghost,     \* what happened at the manager since its last reset()
    builder,    \* the FilterSpecificationBuilder of a request
    fhist,      \* the calls made on the builder and what the last one returned
    context,    \* the collection a GetCollectionView works on: its slice, its length
    batch,      \* the Batch the view has created
    request,    \* the request of the view: its parameters and what the call gave
    stores,     \* the data stores, the engine and metadata registries, the aggregates
    service     \* the Service: its dictionary of collections and its last call

vars == <<cache, last, order, iters, mgr, mghost, builder, fhist, context, batch,
          request, stores, service>>

\* The variables of the cache and its manager, of the filter builder and of
\* the view; other_vars are those the cache and the manager do not touch.
cache_vars == <<cache, last, order, iters, mgr, mghost>>

filter_vars == <<builder, fhist>>

view_vars == <<context, batch, request>>

app_vars == <<stores, service>>

other_vars == <<filter_vars, view_vars, app_vars>>

\* No call made on the builder yet.
NoCalls == [calls |-> << >>, last |-> "none", ret |-> NoSpec]


NoCall == [op |-> "none", e |-> NoEntity, exc |-> "ok"]

\* The variables a caller holds the result of iterator() in.
Handles == {"it1", "it2"}

\* No iterator obtained yet.
NoIterator == [state |-> "none", pos |-> 0, yielded |-> << >>, clean |-> TRUE]

\* iter(self.__entities): a new list iterator, at index 0.
NewIterator == [state |-> "active", pos |-> 0, yielded |-> << >>, clean |-> TRUE]

\* The entity classes the manager is asked for.
Types == {"Foo", "Bar"}

\* The EntityCache objects a manager creates are numbered 1..MaxCaches in the
\* order of their creation.
MaxCaches == 2

\* new_entity_id() hands out FirstNewId, FirstNewId + 1, ..., at most
\* MaxNewIds of them.
FirstNewId == 3

MaxNewIds == 1

\* self.__cache_map.get(entity_class) when the class has no cache.
NoCache == 0

\* No load in progress for a cache.
NoLoad == [active |-> FALSE, type |-> "none", pending |-> << >>, result |-> << >>]

\* EntityCacheManager.__init__, with the caches it will create still unused.
NewManager(has_loader) ==
    [has_loader |-> has_loader,
     cache_map  |-> [t \in Types |-> NoCache],
     caches     |-> [h \in 1..MaxCaches |-> NewCache(FALSE)],
     ncaches    |-> 0,
     loads      |-> [h \in 1..MaxCaches |-> NoLoad],
     next_id    |-> FirstNewId,
     ret        |-> [op |-> "none", type |-> "none", cache |-> NoCache, exc |-> "ok",
                     hit |-> FALSE]]

\* Nothing has happened at the manager since its last reset(), before which
\* it had created the caches 1..n.  lost[t] is what callers had added to the
\* cache of class t before that reset; it is kept until the cache that the
\* first access of t creates is used again.
NoHistory(n) ==
    [base         |-> n,
     accessed     |-> [t \in Types |-> FALSE],
     loader_calls |-> [t \in Types |-> 0],
     first        |-> [t \in Types |-> NoCache],
     added        |-> [t \in Types |-> {}],
     lost         |-> [t \in Types |-> {}]]

\* The cache, the manager and the builder as constructed, untouched.
CacheIdle ==
    /\ cache = NewCache(FALSE)
    /\ last = NoCall
    /\ order = << >>
    /\ iters = [h \in Handles |-> NoIterator]
    /\ mgr = NewManager(TRUE)
    /\ mghost = NoHistory(0)

FilterIdle ==
    /\ builder = NewBuilder
    /\ fhist = NoCalls

ViewIdle ==
    /\ context = NoContext
    /\ batch = NoBatch
    /\ request = NoRequest

AppIdle ==
    /\ stores = NewStores
    /\ service = NewService

Init ==
    /\ \E a \in BOOLEAN : cache = NewCache(a)
    /\ last = NoCall
    /\ order = << >>
    /\ iters = [h \in Handles |-> NoIterator]
    /\ mgr = NewManager(TRUE)
    /\ mghost = NoHistory(0)
    /\ FilterIdle
    /\ ViewIdle
    /\ AppIdle

\* A manager with or without a loader of its own (the repository's default
\* loader may be None).
MgrInit ==
    /\ cache = NewCache(FALSE)
    /\ last = NoCall
    /\ order = << >>
    /\ iters = [h \in Handles |-> NoIterator]
    /\ \E l \in BOOLEAN : mgr = NewManager(l)
    /\ mghost = NoHistory(0)
    /\ FilterIdle
    /\ ViewIdle
    /\ AppIdle

Call(op, e, r) ==
    /\ cache' = r.cache
    /\ last' = [op |-> op, e |-> e, exc |-> r.exc]

Add(e) ==
    /\ Len(CacheAdd(cache, e).cache.entities) <= MaxLen
    /\ Call("add", e, CacheAdd(cache, e))
    /\ UNCHANGED <<order, iters, mgr, mghost, other_vars>>

Remove(e) ==
    /\ e \in Ent
    /\ Call("remove", e, CacheRemove(cache, e))
    /\ UNCHANGED <<order, iters, mgr, mghost, other_vars>>

Replace(e) ==
    /\ e \in Ent
    /\ Call("replace", e, CacheReplace(cache, e))
    /\ UNCHANGED <<order, iters, mgr, mghost, other_vars>>

Collect(o) ==
    /\ o \in Dangling(cache)
    /\ cache' = CacheCollect(cache, o)
    /\ last' = [op |-> "collect", e |-> o, exc |-> "ok"]
    /\ UNCHANGED <<order, iters, mgr, mghost, other_vars>>

Next ==
    \/ \E e \in Ent : Add(e)
    \/ \E e \in Ent : Remove(e)
    \/ \E e \in Ent : Replace(e)
    \/ \E o \in Ent : Collect(o)

Spec == Init /\ [][Next]_vars

\* --------------------------------------------------------------- iterators

\* The record of successful adds without the entity e (its first entry that
\* equals e).
WithoutEntity(s, e) ==
    LET hits == {k \in 1..Len(s) : EntityEq(s[k], e)}
    IN  IF hits = {} THEN s
        ELSE LET k == CHOOSE x \in hits : \A y \in hits : x <= y
             IN  SubSeq(s, 1, k - 1) \o SubSeq(s, k + 1, Len(s))

\* The iterators after the list they traverse was changed: what they yield
\* from then on is no longer followed.
Touched == [h \in Handles |-> [iters[h] EXCEPT !.clean = FALSE, !.yielded = << >>]]

\* A call that changes the cache to c: live iterators now traverse a list
\* that was changed under them.
Mutate(c) ==
    /\ cache' = c
    /\ iters' = IF c.entities = cache.entities THEN iters ELSE Touched
    /\ UNCHANGED <<last, mgr, mghost, other_vars>>

IterAdd(e) ==
    LET r == CacheAdd(cache, e)
    IN  /\ Len(r.cache.entities) <= MaxLen
        /\ Mutate(r.cache)
        /\ order' = IF r.exc = "ok" THEN Append(order, e) ELSE order

IterRemove(e) ==
    LET r == CacheRemove(cache, e)
    IN  /\ Mutate(r.cache)
        /\ order' = IF r.exc = "ok" THEN WithoutEntity(order, e) ELSE order

\* replace is remove(old) then add(new): the remove inside it has succeeded
\* when the replace succeeds or fails in its add.
IterReplace(e) ==
    LET r == CacheReplace(cache, e)
        removed == IF r.exc \in {"ok", "DuplicateSlug"}
                   THEN WithoutEntity(order, get_by_id(cache, e.id)) ELSE order
    IN  /\ Mutate(r.cache)
        /\ order' = IF r.exc = "ok" THEN Append(removed, e) ELSE removed

IterCollect(o) ==
    /\ o \in Dangling(cache)
    /\ Mutate(CacheCollect(cache, o))
    /\ UNCHANGED order

\* it = cache.iterator()
IteratorCall(h) ==
    /\ iters' = [iters EXCEPT ![h] = NewIterator]
    /\ UNCHANGED <<cache, last, order, mgr, mghost, other_vars>>

\* next(it) on a list iterator: the element at its index, or StopIteration
\* for good once the index is past the end.
IterNext(h) ==
    /\ iters[h].state = "active"
    /\ iters' = [iters EXCEPT ![h] =
                    IF iters[h].pos < Len(iterator(cache))
                    THEN [@ EXCEPT !.pos = @ + 1,
                                   !.yielded = IF iters[h].clean
                                               THEN Append(@, iterator(cache)[iters[h].pos + 1])
                                               ELSE @]
                    ELSE [@ EXCEPT !.state = "exhausted"]]
    /\ UNCHANGED <<cache, last, order, mgr, mghost, other_vars>>

\* The entities handed to the cache while iterators are followed.
IterEnt == {e \in Ent : e.tag = "x" /\ e.slug # "b"}

IterNextStep ==
    \/ \E e \in IterEnt : IterAdd(e)
    \/ \E e \in IterEnt : IterRemove(e)
    \/ \E e \in IterEnt : IterReplace(e)
    \/ \E o \in IterEnt : IterCollect(o)
    \/ \E h \in Handles : IteratorCall(h)
    \/ \E h \in Handles : IterNext(h)

IterSpec == Init /\ [][IterNextStep]_vars

\* ------------------------------------------------------ EntityCacheManager

\* The entities a loader returns.
E1 == [id |-> 1, slug |-> "a", tag |-> "x"]

E2 == [id |-> 2, slug |-> "None", tag |-> "x"]

SameSlug == [id |-> 2, slug |-> "a", tag |-> "x"]

NoIdYet == [id |-> NoneId, slug |-> "None", tag |-> "x"]

\* What a call loader(ent_cls) may give: a sequence of entities (some without
\* id, some that the cache will refuse) or an exception.
LoaderResults ==
    {<< >>, <<E1, E2>>, <<NoIdYet, E1>>, <<E1, SameSlug>>}

\* The entities of a sequence that have no id.
NoneCount(s) == Cardinality({k \in 1..Len(s) : s[k].id = NoneId})

\* The call manager[t] returns the cache h, or raises exc.
Returned(m, t, h, exc) ==
    [m EXCEPT !.ret = [op |-> "getitem", type |-> t, cache |-> h, exc |-> exc,
                       hit |-> FALSE]]

\* EntityCacheManager.__getitem__ for a class that has a cache.
GetItemHit(t) ==
    /\ mgr.cache_map[t] # NoCache
    /\ mgr' = [Returned(mgr, t, mgr.cache_map[t], "ok") EXCEPT !.ret.hit = TRUE]
    /\ mghost' = [mghost EXCEPT !.accessed[t] = TRUE, !.lost[t] = {}]
    /\ UNCHANGED <<cache, last, order, iters, other_vars>>

\* Mutant of Register: the new cache is not entered in the cache map.
Register_Forgotten(m, t, h) ==
    [m EXCEPT !.ncaches = h, !.caches[h] = NewCache(FALSE)]

\* EntityCacheManager._initialize_cache, line 157: the new, empty cache is
\* entered in the cache map before anything is loaded.
Register(m, t, h) ==
    [m EXCEPT !.ncaches = h, !.caches[h] = NewCache(FALSE), !.cache_map[t] = h]

\* EntityCacheManager.__getitem__ for a class that has no cache:
\* _initialize_cache creates and registers the cache and calls the loader.
\* Without loader, with an empty result or with a loader that raises, the
\* call ends here; else the entities are added one by one (LoadStep).
GetItemMiss(t, result, raises) ==
    LET h == mgr.ncaches + 1
        m == Register(mgr, t, h)
    IN  /\ mgr.cache_map[t] = NoCache
        /\ mgr.ncaches < MaxCaches
        /\ mgr.has_loader => NoneCount(result) <= FirstNewId + MaxNewIds - mgr.next_id
        /\ ~mgr.has_loader => (result = << >> /\ ~raises)
        /\ mgr' = IF ~mgr.has_loader \/ (result = << >> /\ ~raises)
                  THEN Returned(m, t, h, "ok")
                  ELSE IF raises
                  THEN Returned(m, t, NoCache, "LoaderError")
                  ELSE [m EXCEPT !.loads[h] =
                            [active |-> TRUE, type |-> t, pending |-> result,
                             result |-> result]]
        /\ mghost' = [mghost EXCEPT
                        !.accessed[t] = TRUE,
                        !.first[t] = IF @ = NoCache THEN h ELSE @,
                        !.loader_calls[t] = IF mgr.has_loader THEN @ + 1 ELSE @]
        /\ UNCHANGED <<cache, last, order, iters, other_vars>>

\* EntityCacheManager._initialize_cache, lines 163-167: one turn of the loop
\* over the loader's entities.  An entity without id gets a new one; an add
\* that raises ends the call with that exception; after the last entity the
\* call returns the cache.
LoadStep(h) ==
    LET ld  == mgr.loads[h]
        ent == Head(ld.pending)
        e   == IF ent.id = NoneId THEN [ent EXCEPT !.id = mgr.next_id] ELSE ent
        r   == CacheAdd(mgr.caches[h], e)
        m   == [mgr EXCEPT !.caches[h] = r.cache,
                           !.next_id = IF ent.id = NoneId THEN @ + 1 ELSE @]
    IN  /\ ld.active
        /\ mgr' = IF r.exc # "ok"
                  THEN Returned([m EXCEPT !.loads[h] = NoLoad], ld.type, NoCache, r.exc)
                  ELSE IF Tail(ld.pending) = << >>
                  THEN Returned([m EXCEPT !.loads[h] = NoLoad], ld.type, h, "ok")
                  ELSE [m EXCEPT !.loads[h].pending = Tail(ld.pending)]
        /\ UNCHANGED <<cache, last, order, iters, mghost, other_vars>>

\* A caller adds an entity to the cache it gets for a class:
\* manager[t].add(e).
MgrAdd(t, e) ==
    LET h == mgr.cache_map[t]
        r == CacheAdd(mgr.caches[h], e)
    IN  /\ h # NoCache
        /\ Len(r.cache.entities) <= MaxLen
        /\ mgr' = [mgr EXCEPT !.caches[h] = r.cache,
                              !.ret = [op |-> "add", type |-> t, cache |-> h,
                                       exc |-> r.exc, hit |-> FALSE]]
        /\ mghost' = [mghost EXCEPT
                        !.accessed[t] = TRUE,
                        !.added[t] = IF r.exc = "ok" THEN @ \cup {e} ELSE @,
                        !.lost[t] = {}]
        /\ UNCHANGED <<cache, last, order, iters, other_vars>>

\* Mutant of Reset: the cache map is left as it is.
Reset_KeepMap ==
    /\ mgr' = [mgr EXCEPT !.ret = [op |-> "reset", type |-> "none",
                                   cache |-> NoCache, exc |-> "ok", hit |-> FALSE]]
    /\ mghost' = [NoHistory(mgr.ncaches) EXCEPT !.lost = mghost.added]
    /\ UNCHANGED <<cache, last, order, iters, other_vars>>

\* EntityCacheManager.reset: the cache map is cleared.  A cache that is
\* still being loaded lives on in the call that loads it; the others are
\* garbage.  The history remembers what callers had added before the reset.
Reset ==
    /\ mgr' = [mgr EXCEPT !.cache_map = [t \in Types |-> NoCache],
                          !.caches = [h \in 1..MaxCaches |->
                                        IF mgr.loads[h].active THEN @[h] ELSE NewCache(FALSE)],
                          !.ret = [op |-> "reset", type |-> "none", cache |-> NoCache,
                                   exc |-> "ok", hit |-> FALSE]]
    /\ mghost' = [NoHistory(mgr.ncaches) EXCEPT !.lost = mghost.added]
    /\ UNCHANGED <<cache, last, order, iters, other_vars>>

MgrNext ==
    \/ \E t \in Types : GetItemHit(t)
    \/ \E t \in Types, result \in LoaderResults, raises \in BOOLEAN :
            GetItemMiss(t, result, raises)
    \/ \E h \in 1..MaxCaches : LoadStep(h)
    \/ \E t \in Types : MgrAdd(t, E2)
    \/ Reset

MgrSpec == MgrInit /\ [][MgrNext]_vars

\* ------------------------------------------------ FilterSpecificationBuilder

\* A sequence of build calls is made with these operators and value lists,
\* and has at most MaxCalls calls.
SeqOps == {"equal_to", "greater_than", "not_equal_to"}

SeqLists == {<<1>>, <<2>>, <<1, 2>>}

MaxCalls == 3

\* The value lists of a call on a fresh builder: up to MaxValues values, or
\* tuples for in_range.
ValueLists == UNION {[1..n -> Values] : n \in 1..MaxValues}

RangeLists == UNION {[1..n -> Ranges] : n \in 1..MaxValues}

\* build_not_<op> is called with one value, as the tests call it.
OneValue(op, lists) == IF IsNot(op) THEN {v \in lists : Len(v) = 1} ELSE lists

InputsOf(op) ==
    OneValue(op, IF LeafKind(op) = "in_range" THEN RangeLists ELSE ValueLists)

\* builder.build_<op>(attr_name, attr_values)
Build(op, attr_name, attr_values) ==
    /\ builder' = build(builder, op, attr_name, attr_values)
    /\ fhist' = [calls |-> Append(fhist.calls,
                                  [op |-> op, attr |-> attr_name, values |-> attr_values]),
                 last  |-> "build",
                 ret   |-> NoSpec]
    /\ UNCHANGED <<cache_vars, view_vars, app_vars>>

\* spec = builder.get_specification()
GetSpecification ==
    /\ builder' = get_specification(builder).builder
    /\ fhist' = [fhist EXCEPT !.last = "get", !.ret = get_specification(builder).ret]
    /\ UNCHANGED <<cache_vars, view_vars, app_vars>>

FilterInit == CacheIdle /\ FilterIdle /\ ViewIdle /\ AppIdle

\* One more build call of a sequence.
NextBuild(op, attr_name, attr_values) ==
    /\ Len(fhist.calls) < MaxCalls
    /\ Build(op, attr_name, attr_values)

\* Any sequence of build calls, get_specification() called at any time.
FilterNext ==
    \/ \E op \in SeqOps, attr_name \in AttrNames :
            \E attr_values \in OneValue(op, SeqLists) : NextBuild(op, attr_name, attr_values)
    \/ GetSpecification

FilterSpec == FilterInit /\ [][FilterNext]_vars

\* One build call on a fresh builder, with any operator, and
\* get_specification() before and after.
FirstBuild(op, attr_name, attr_values) ==
    /\ fhist.calls = << >>
    /\ Build(op, attr_name, attr_values)

FreshNext ==
    \/ \E op \in BuildOps, attr_name \in AttrNames :
            \E attr_values \in InputsOf(op) : FirstBuild(op, attr_name, attr_values)
    \/ GetSpecification

FreshSpec == FilterInit /\ [][FreshNext]_vars

\* -------------------------------------------------------- GetCollectionView

\* A view on a collection that a request has sliced.
BatchInit ==
    /\ CacheIdle
    /\ FilterIdle
    /\ AppIdle
    /\ context \in Contexts
    /\ batch = NoBatch
    /\ request = NoRequest

\* batch = self._create_batch()
CreateBatch ==
    /\ batch = NoBatch
    /\ batch' = create_batch(context)
    /\ UNCHANGED <<cache_vars, filter_vars, app_vars, context, request>>

BatchNext == CreateBatch

BatchSpec == BatchInit /\ [][BatchNext]_vars

\* A view on a collection that no request has touched yet.
ViewInit ==
    /\ CacheIdle
    /\ FilterIdle
    /\ AppIdle
    /\ context \in ViewContexts
    /\ batch = NoBatch
    /\ request = NoRequest

\* GetCollectionView.__call__ for a request with the given parameters.
ViewCall(params) ==
    /\ ~request.called
    /\ LET r == GetCollectionView_call(context, params)
       IN  /\ context' = r.ctx
           /\ batch' = r.batch
           /\ request' = [params |-> params, result |-> r.result,
                          raised |-> r.raised, called |-> TRUE]
    /\ UNCHANGED <<cache_vars, filter_vars, app_vars>>

ViewNext == \E params \in Params : ViewCall(params)

ViewSpec == ViewInit /\ [][ViewNext]_vars

\* ------------------------------------------- OrmDataStore, EntityRepository

StoreInit == CacheIdle /\ FilterIdle /\ ViewIdle /\ AppIdle

\* The store makes its session factory.
MakeSessionFactory(s) ==
    /\ ~stores.inst[s].made
    /\ stores' = Outcome([stores EXCEPT !.inst[s] = make_session_factory],
                         "_make_session_factory", s, "ok")
    /\ UNCHANGED <<cache_vars, filter_vars, view_vars, service>>

\* store._initialize()
Initialize(s, md_fac_raises) ==
    /\ stores' = initialize(stores, s, md_fac_raises)
    /\ UNCHANGED <<cache_vars, filter_vars, view_vars, service>>

\* repository.new(rc) on the repository of store s.
New(s, rc) ==
    /\ Len(stores.aggregates) < MaxAggregates
    /\ stores' = new(stores, s, rc)
    /\ UNCHANGED <<cache_vars, filter_vars, view_vars, service>>

StoreNext ==
    \/ \E s \in Stores : MakeSessionFactory(s)
    \/ \E s \in Stores, md_fac_raises \in BOOLEAN : Initialize(s, md_fac_raises)
    \/ \E s \in Stores, rc \in Resources : New(s, rc)

StoreSpec == StoreInit /\ [][StoreNext]_vars

\* ----------------------------------------------------------------- Service

ServiceInit == CacheIdle /\ FilterIdle /\ ViewIdle /\ AppIdle

\* The service after a call: its dictionary, the classes whose add succeeded
\* and whose remove did not, and the call with its outcome.
Called(op, arg, r, registered, ret) ==
    [collections |-> r.collections,
     registered  |-> registered,
     last        |-> [op |-> op, arg |-> arg, exc |-> r.exc, ret |-> ret]]

ServiceAdd(arg) ==
    /\ LET r == Service_add(service.collections, arg)
       IN  service' = Called("add", arg, r,
                             IF r.exc = "ok"
                             THEN service.registered \cup {Resolve(arg)}
                             ELSE service.registered,
                             Default)
    /\ UNCHANGED <<cache_vars, filter_vars, view_vars, stores>>

ServiceRemove(arg) ==
    /\ LET r == Service_remove(service.collections, arg)
       IN  service' = Called("remove", arg, r,
                             IF r.exc = "ok"
                             THEN service.registered \ {Resolve(arg)}
                             ELSE service.registered,
                             Default)
    /\ UNCHANGED <<cache_vars, filter_vars, view_vars, stores>>

ServiceGet(key) ==
    /\ service' = Called("get", key.id, Done(service.collections, "ok"),
                         service.registered, Service_get(service.collections, key))
    /\ UNCHANGED <<cache_vars, filter_vars, view_vars, stores>>

ServiceNext ==
    \/ \E arg \in Classes \cup Interfaces : ServiceAdd(arg)
    \/ \E arg \in Classes \cup Interfaces : ServiceRemove(arg)
    \/ \E key \in Keys : ServiceGet(key)

ServiceSpec == ServiceInit /\ [][ServiceNext]_vars

\* ------------------------------------------------------------------ claims

\* The entities of the list that carry the id i.
WithId(c, i) == {k \in 1..Len(c.entities) : c.entities[k].id = i}

\* C1: an add of an entity whose id is already indexed raises the
\* duplicate-identifier error (a ValueError) and leaves the entity list, the
\* id index and the slug index as they were, so the size stays the same.
C1_AddDuplicateIdUnchanged ==
    [][(last'.op = "add" /\ has_id(cache, last'.e.id))
        => /\ last'.exc = "DuplicateId"
           /\ ExcType(last'.exc) = "ValueError"
           /\ cache'.entities = cache.entities
           /\ cache'.id_map = cache.id_map
           /\ cache'.slug_map = cache.slug_map
           /\ Len(iterator(cache')) = Len(iterator(cache))]_vars

\* C1 witness: an add has just failed on a duplicate id in a cache that holds
\* an entity with that id.
C1_Witness ==
    /\ last.op = "add"
    /\ last.exc = "DuplicateId"
    /\ WithId(cache, last.e.id) # {}

C3_UniqueIds ==
    \A i, j \in 1..Len(cache.entities) :
        (i # j /\ cache.entities[i].id # NoneId)
            => cache.entities[i].id # cache.entities[j].id

\* C3 witness: two entities with ids are cached and the last call failed.
C3_Witness ==
    /\ Len(cache.entities) = 2
    /\ cache.entities[1].id # NoneId
    /\ cache.entities[2].id # NoneId
    /\ last.exc # "ok"

\* C4 (as claimed): an add that fails on a duplicate slug leaves
\* get_by_slug(slug) as it was, and the failing entity, which was not part of
\* the cache before, is not part of it afterwards: it is not in the entity
\* list and get_by_id does not return it.
C4_DuplicateSlugNoTrace ==
    [][(/\ last'.op = "add"
        /\ last'.exc = "DuplicateSlug"
        /\ last'.e \notin Range(cache.entities)
        /\ get_by_id(cache, last'.e.id) # last'.e)
        => /\ get_by_slug(cache', last'.e.slug) = get_by_slug(cache, last'.e.slug)
           /\ last'.e \notin Range(cache'.entities)
           /\ get_by_id(cache', last'.e.id) # last'.e]_vars

\* C5 (as claimed): a replace(new) on a cache that holds an entity with the id
\* of new leaves get_by_id(new.id) = new, the old entity gone and the number
\* of entities unchanged; with the (non-null) id of new not indexed it raises
\* not-found.
C5_ReplaceAsClaimed ==
    [][last'.op = "replace"
        => /\ (last'.e.id # NoneId /\ WithId(cache, last'.e.id) # {})
                => /\ get_by_id(cache', last'.e.id) = last'.e
                   /\ \A k \in WithId(cache', last'.e.id) : cache'.entities[k] = last'.e
                   /\ Len(cache'.entities) = Len(cache.entities)
           /\ (last'.e.id # NoneId /\ ~has_id(cache, last'.e.id))
                => ExcType(last'.exc) = "KeyError"]_vars

\* The old entity a replace(new) finds.
OldOf(c, e) == get_by_id(c, e.id)

\* The slug of new is free once the old entity is removed.
SlugFree(c, e) ==
    \/ e.slug = NoneSlug
    \/ e.slug = OldOf(c, e).slug
    \/ ~has_slug(c, e.slug)

\* C5 (amended): a replace(new) on a cache that holds an entity old with the
\* id of new, where the slug of new is null, the slug of old, or not indexed,
\* succeeds: get_by_id(new.id) is new, new is the last entity iterated, no
\* other entity with that id is iterated and the number of entities is
\* unchanged.  Where the slug of new is indexed for another entity the
\* replace raises the duplicate-slug error.  With a non-null id that is not
\* indexed, replace raises KeyError and changes nothing.
C5_ReplaceAmended ==
    [][last'.op = "replace"
        => /\ (WithId(cache, last'.e.id) # {} /\ last'.e.id # NoneId /\ SlugFree(cache, last'.e))
                => /\ last'.exc = "ok"
                   /\ get_by_id(cache', last'.e.id) = last'.e
                   /\ cache'.entities[Len(cache'.entities)] = last'.e
                   /\ \A k \in WithId(cache', last'.e.id) : cache'.entities[k] = last'.e
                   /\ Len(cache'.entities) = Len(cache.entities)
           /\ (WithId(cache, last'.e.id) # {} /\ last'.e.id # NoneId /\ ~SlugFree(cache, last'.e))
                => last'.exc = "DuplicateSlug"
           /\ (last'.e.id # NoneId /\ ~has_id(cache, last'.e.id))
                => /\ last'.exc = "NotFound"
                   /\ ExcType(last'.exc) = "KeyError"
                   /\ cache' = cache]_vars

\* C5 witness: a replace has just put a new object in the place of an old
\* one while another entity is cached.
C5_Witness ==
    /\ last.op = "replace"
    /\ last.exc = "ok"
    /\ Len(cache.entities) = 2
    /\ get_by_id(cache, last.e.id) = last.e

\* C6: a remove(e) with a non-null id that is not in the id index raises the
\* not-found error (KeyError) and leaves the entity list and both indexes
\* unchanged.
C6_RemoveAbsentKeyError ==
    [][(last'.op = "remove" /\ last'.e.id # NoneId /\ ~has_id(cache, last'.e.id))
        => /\ last'.exc = "NotFound"
           /\ ExcType(last'.exc) = "KeyError"
           /\ cache'.entities = cache.entities
           /\ cache'.id_map = cache.id_map
           /\ cache'.slug_map = cache.slug_map]_vars

\* C6 witness: a remove has just failed with not-found on a cache that
\* indexes the slug of the entity for another entity.
C6_Witness ==
    /\ last.op = "remove"
    /\ last.exc = "NotFound"
    /\ has_slug(cache, last.e.slug)

\* C7: remove and replace of an entity without id raise the
\* missing-identifier error (ValueError) and change nothing.
C7_NoneIdRejected ==
    [][(last'.op \in {"remove", "replace"} /\ last'.e.id = NoneId)
        => /\ last'.exc = "NoneId"
           /\ ExcType(last'.exc) = "ValueError"
           /\ cache' = cache]_vars

\* C7 witness: a replace of an entity without id has just failed on a cache
\* that holds an entity without id and indexes the slug of the argument.
C7_Witness ==
    /\ last.op = "replace"
    /\ last.e.id = NoneId
    /\ last.exc = "NoneId"
    /\ has_slug(cache, last.e.slug)
    /\ \E k \in 1..Len(cache.entities) : cache.entities[k].id = NoneId

\* C8 (as claimed): an add of an entity without id fails with the
\* missing-identifier error and changes nothing when allow_none_id is false;
\* when it is true the entity is appended to the list, slug-indexed if it has
\* a slug, and not entered in the id index.
C8_AddNoneIdAsClaimed ==
    [][(last'.op = "add" /\ last'.e.id = NoneId)
        => IF ~cache.allow_none_id
           THEN last'.exc = "NoneId" /\ cache' = cache
           ELSE /\ cache'.entities = Append(cache.entities, last'.e)
                /\ last'.e.slug # NoneSlug => get_by_slug(cache', last'.e.slug) = last'.e
                /\ cache'.id_map = cache.id_map]_vars

\* C8 (amended): as claimed, except that with allow_none_id true an entity
\* whose slug is already indexed is not appended: the add raises the
\* duplicate-slug error and changes nothing.
C8_AddNoneIdAmended ==
    [][(last'.op = "add" /\ last'.e.id = NoneId)
        => IF ~cache.allow_none_id
           THEN /\ last'.exc = "NoneId"
                /\ ExcType(last'.exc) = "ValueError"
                /\ cache' = cache
           ELSE IF has_slug(cache, last'.e.slug)
           THEN last'.exc = "DuplicateSlug" /\ cache' = cache
           ELSE /\ last'.exc = "ok"
                /\ cache'.entities = Append(cache.entities, last'.e)
                /\ last'.e.slug # NoneSlug => get_by_slug(cache', last'.e.slug) = last'.e
                /\ last'.e.slug = NoneSlug => cache'.slug_map = cache.slug_map
                /\ cache'.id_map = cache.id_map]_vars

\* C8 witness: an entity without id and with a slug has just been added to a
\* cache that allows it; it is slug-indexed and the id index holds another.
C8_Witness ==
    /\ cache.allow_none_id
    /\ last.op = "add"
    /\ last.e.id = NoneId
    /\ last.exc = "ok"
    /\ get_by_slug(cache, last.e.slug) = last.e
    /\ cache.entities[Len(cache.entities)] = last.e
    /\ DOMAIN cache.id_map # {}

\* s is the beginning of t.
IsPrefix(s, t) == Len(s) <= Len(t) /\ \A k \in 1..Len(s) : s[k] = t[k]

\* C9: iterator() gives the entities added successfully and not removed
\* since, in the order of their adds; every iterator obtained yields, while
\* the list is not changed under it, that sequence from its first entity on,
\* wherever the other iterators stand, and has yielded all of it when it ends.
C9_IteratorInAddOrder ==
    /\ iterator(cache) = order
    /\ \A h \in Handles :
        (iters[h].state # "none" /\ iters[h].clean)
            => /\ iters[h].pos = Len(iters[h].yielded)
               /\ IsPrefix(iters[h].yielded, order)
               /\ iters[h].state = "exhausted" => iters[h].yielded = order

\* C9 witness: two entities are cached after another one was removed (its
\* slug is still indexed); one iterator has yielded both and ended, and a
\* second one has yielded the first entity only.
C9_Witness ==
    /\ Len(order) = 2
    /\ order[1].id = 2
    /\ has_slug(cache, "a")
    /\ get_by_slug(cache, "a") \notin Range(cache.entities)
    /\ iters["it1"].state = "exhausted"
    /\ iters["it1"].clean
    /\ iters["it1"].yielded = order
    /\ iters["it2"].state = "active"
    /\ iters["it2"].clean
    /\ iters["it2"].yielded = <<order[1]>>

\* C10: between two reset() calls the loader has been called once for every
\* class that was accessed and never for another class; a class has a cache
\* only once it was accessed; every access of a class returns the cache its
\* first access created, and the entities added through an access are in the
\* cache that later accesses return.
C10_LazyOncePerType ==
    \A t \in Types :
        /\ mghost.loader_calls[t] = IF mghost.accessed[t] /\ mgr.has_loader THEN 1 ELSE 0
        /\ ~mghost.accessed[t] => mgr.cache_map[t] = NoCache
        /\ mghost.accessed[t]
            => /\ mghost.first[t] # NoCache
               /\ mgr.cache_map[t] = mghost.first[t]
               /\ mghost.added[t] \subseteq Range(mgr.caches[mgr.cache_map[t]].entities)
        /\ (/\ mgr.ret.op = "getitem"
            /\ mgr.ret.type = t
            /\ mgr.ret.exc = "ok"
            /\ mgr.ret.cache > mghost.base)
            => mgr.ret.cache = mghost.first[t]

\* C10 witness: after a reset, Foo was accessed, loaded by one loader call,
\* given one more entity, and accessed again, which returned the same cache
\* with that entity; Bar was not accessed and has no cache.
C10_Witness ==
    /\ mghost.base = 1
    /\ mghost.accessed["Foo"]
    /\ ~mghost.accessed["Bar"]
    /\ mghost.loader_calls["Foo"] = 1
    /\ mghost.added["Foo"] = {E2}
    /\ mgr.ret = [op |-> "getitem", type |-> "Foo", cache |-> 2, exc |-> "ok",
                  hit |-> TRUE]
    /\ ~mgr.loads[2].active
    /\ Len(mgr.caches[2].entities) = 3

\* The cache c holds the entities of the loader's result s and nothing else:
\* the same entities in the same order, those that came without id with a
\* new id, each of them found under its id and under its slug.
HoldsExactly(c, s) ==
    /\ Len(c.entities) = Len(s)
    /\ \A k \in 1..Len(s) :
        LET e == c.entities[k]
        IN  /\ e.slug = s[k].slug
            /\ e.tag = s[k].tag
            /\ IF s[k].id = NoneId THEN e.id >= FirstNewId ELSE e.id = s[k].id
            /\ has_id(c, e.id) /\ get_by_id(c, e.id) = e
            /\ e.slug # NoneSlug => (has_slug(c, e.slug) /\ get_by_slug(c, e.slug) = e)
    /\ \A i \in DOMAIN c.id_map : c.id_map[i] \in Range(c.entities)
    /\ \A g \in DOMAIN c.slug_map : c.slug_map[g] \in Range(c.entities)

\* C11: after reset() no class has a cache: a class accessed since the reset
\* got, at its first access, a cache created after the reset, and when that
\* first access returns a cache (nobody else having added to it while it was
\* loaded) the cache holds exactly the entities the loader returned to that
\* access (nothing when there is no loader or nothing was returned), so an
\* entity a caller had added before the reset is in it only if the loader
\* returned it.
C11_ResetClearsAll ==
    [][\A t \in Types :
        LET h == mghost'.first[t]
            c == mgr'.caches[h]
            returns == mgr'.ret = [op |-> "getitem", type |-> t,
                                   cache |-> h, exc |-> "ok", hit |-> FALSE]
        IN  /\ mghost'.accessed[t]
                => (h > mghost'.base /\ mgr'.cache_map[t] = h)
            /\ ~mghost'.accessed[t] => mgr'.cache_map[t] = NoCache
            /\ (mgr.cache_map[t] = NoCache /\ returns)
                => HoldsExactly(c, << >>)
            /\ (/\ h # NoCache
                /\ mgr.loads[h].active
                /\ ~mgr'.loads[h].active
                /\ returns
                /\ mghost.added[t] = {})
                => /\ HoldsExactly(c, mgr.loads[h].result)
                   /\ \A e \in mghost.lost[t] :
                        e \in Range(c.entities) => e \in Range(mgr.loads[h].result)
      ]_vars

\* C11 witness: a caller had added E2 to the cache of Foo; after a reset the
\* first access of Foo returned a new cache with the two entities the loader
\* returned then, the one without id under a new id, and without E2.
C11_Witness ==
    /\ mghost.base = 1
    /\ mghost.lost["Foo"] = {E2}
    /\ mgr.ret = [op |-> "getitem", type |-> "Foo", cache |-> 2, exc |-> "ok",
                  hit |-> FALSE]
    /\ mghost.first["Foo"] = 2
    /\ mghost.added["Foo"] = {}
    /\ mgr.caches[2].entities = <<[NoIdYet EXCEPT !.id = FirstNewId], E1>>
    /\ E2 \notin Range(mgr.caches[2].entities)

\* The objects a specification is evaluated on: a value for every attribute.
Candidates == [AttrNames -> 0..3]

\* spec.is_satisfied_by(x), for the leaf kinds that compare numbers.
RECURSIVE Holds(_, _)
Holds(spec, x) ==
    CASE spec.kind = "not" -> ~Holds(spec.operand, x)
      [] spec.kind = "and" -> Holds(spec.left, x) /\ Holds(spec.right, x)
      [] spec.kind = "or"  -> Holds(spec.left, x) \/ Holds(spec.right, x)
      [] spec.kind = "leaf" ->
            LET v == x[spec.attr]
            IN  CASE spec.op = "equal_to"  -> v = spec.values[1]
                  [] spec.op = "contained" -> v \in Range(spec.values)
                  [] spec.op = "less_than" -> v < spec.values[1]
                  [] spec.op = "less_than_or_equal_to" -> v <= spec.values[1]
                  [] spec.op = "greater_than" -> v > spec.values[1]
                  [] spec.op = "greater_than_or_equal_to" -> v >= spec.values[1]
                  [] spec.op = "in_range" -> spec.values[1] <= v /\ v <= spec.values[2]

\* The criterion of one build call holds of x: the operator holds of one of
\* the values (does not hold, for build_not_<op>).
Criterion(call, x) ==
    LET any == \E k \in 1..Len(call.values) :
                    Holds(LeafFor(LeafKind(call.op), call.attr, call.values[k]), x)
    IN  IF IsNot(call.op) THEN ~any ELSE any

\* For every attribute name used, one of the criteria given for it holds.
AllNamesAnyCriterion(calls, x) ==
    \A a \in {calls[k].attr : k \in 1..Len(calls)} :
        \E k \in 1..Len(calls) : calls[k].attr = a /\ Criterion(calls[k], x)

\* C12: after any sequence of build calls the accumulated specification is
\* logically equivalent to the conjunction, over the attribute names used, of
\* the disjunction of all criteria given for that name: it holds of exactly
\* the objects of which, for every name, one of the criteria holds.
C12_AndOfOrs ==
    fhist.calls # << >>
        => \A x \in Candidates :
            Holds(Specification(builder), x) <=> AllNamesAnyCriterion(fhist.calls, x)

\* C12 witness: build_equal_to("age", [1]), a call for "name", then
\* build_equal_to("age", [2]): the two criteria for "age" are joined by OR
\* and that by AND with the criterion for "name".
C12_Witness ==
    /\ fhist.calls = <<[op |-> "equal_to", attr |-> "age", values |-> <<1>>],
                       [op |-> "greater_than", attr |-> "name", values |-> <<2>>],
                       [op |-> "equal_to", attr |-> "age", values |-> <<2>>]>>
    /\ Specification(builder) =
            Conjunction(Disjunction(Leaf("equal_to", "age", <<1>>),
                                    Leaf("equal_to", "age", <<2>>)),
                        Leaf("greater_than", "name", <<2>>))
    /\ \A x \in Candidates :
            Holds(Specification(builder), x) <=> (x["age"] \in {1, 2} /\ x["name"] > 2)

\* C13: after two build calls on a fresh builder for two different attribute
\* names the specification is Conjunction(left, right), left being what the
\* first call built (its leaf, when it had one value) and right what the
\* second call built.
C13_ConjunctionInCallOrder ==
    (Len(fhist.calls) = 2 /\ fhist.calls[1].attr # fhist.calls[2].attr)
        => LET c1 == fhist.calls[1]
               c2 == fhist.calls[2]
               s  == Specification(builder)
           IN  /\ s.kind = "and"
               /\ s.left = BuildSpec(c1.op, c1.attr, c1.values)
               /\ s.right = BuildSpec(c2.op, c2.attr, c2.values)
               /\ (c1.op = "greater_than" /\ Len(c1.values) = 1)
                    => s.left = Leaf("greater_than", c1.attr, c1.values)

\* C13 witness: build_greater_than("age", [1]) then build_equal_to("name",
\* [2]), as in test_build_conjunction.
C13_Witness ==
    /\ fhist.calls = <<[op |-> "greater_than", attr |-> "age", values |-> <<1>>],
                       [op |-> "equal_to", attr |-> "name", values |-> <<2>>]>>
    /\ fhist.last = "get"
    /\ fhist.ret = Conjunction(Leaf("greater_than", "age", <<1>>),
                               Leaf("equal_to", "name", <<2>>))

\* The leaves of a disjunction, from left to right (a specification that is
\* not a disjunction counts as one leaf).
RECURSIVE Disjuncts(_)
Disjuncts(spec) ==
    IF spec.kind = "or" THEN Disjuncts(spec.left) \o Disjuncts(spec.right)
    ELSE <<spec>>

SingleValued == BuildOps \ {"in_range", "not_in_range"}

\* A specification without the negation around it.
Unnegated(spec) == IF spec.kind = "not" THEN spec.operand ELSE spec

\* C15 as claimed: one call of a single-valued operator builds exactly one
\* leaf, that of values[0], whatever the length of values.
C15_OneLeafAsClaimed ==
    (Len(fhist.calls) = 1 /\ fhist.calls[1].op \in SingleValued)
        => LET c == fhist.calls[1]
           IN  Unnegated(Specification(builder))
                    = Leaf(LeafKind(c.op), c.attr, <<c.values[1]>>)

\* C15 amended: one call of a single-valued operator builds exactly one leaf,
\* that of values[0], when values has one value; with n >= 2 values it builds
\* n leaves joined by OR, the first of them that of values[0], or, for
\* equal_to, one ValueContained leaf with all the values.
C15_OneLeafPerValue ==
    (Len(fhist.calls) = 1 /\ fhist.calls[1].op \in SingleValued)
        => LET c      == fhist.calls[1]
               n      == Len(c.values)
               leaves == Disjuncts(Unnegated(Specification(builder)))
               first  == Leaf(LeafKind(c.op), c.attr, <<c.values[1]>>)
           IN  IF n = 1 THEN leaves = <<first>>
               ELSE IF c.op = "equal_to"
               THEN leaves = <<Leaf("contained", c.attr, c.values)>>
               ELSE Len(leaves) = n /\ leaves[1] = first /\ leaves # <<first>>

\* C15 witness: build_ends_with("name", [2, 1, 1]) has built three leaves.
C15_Witness ==
    /\ Len(fhist.calls) = 1
    /\ fhist.calls[1].op = "ends_with"
    /\ fhist.calls[1].attr = "name"
    /\ fhist.calls[1].values = <<2, 1, 1>>
    /\ Disjuncts(Specification(builder)) =
            <<Leaf("ends_with", "name", <<2>>), Leaf("ends_with", "name", <<1>>),
              Leaf("ends_with", "name", <<1>>)>>

\* The leaves of a specification, from left to right.
RECURSIVE AllLeaves(_)
AllLeaves(spec) ==
    CASE spec.kind = "leaf" -> <<spec>>
      [] spec.kind = "not"  -> AllLeaves(spec.operand)
      [] spec.kind \in {"and", "or"} -> AllLeaves(spec.left) \o AllLeaves(spec.right)
      [] spec.kind = "none" -> << >>

\* The number of leaves a sequence of calls should have built when equal_to
\* with several values builds one leaf and every other call one per value.
RECURSIVE LeavesExpected(_)
LeavesExpected(calls) ==
    IF calls = << >> THEN 0
    ELSE LeavesExpected(Tail(calls))
            + (IF Head(calls).op = "equal_to" THEN 1 ELSE Len(Head(calls).values))

\* C16: build_equal_to(attr, values) with two or more values contributes one
\* ValueContained(attr, values) leaf with the whole list: that leaf is in the
\* tree, the tree has no ValueEqualTo leaf but those of the calls with one
\* value, and the call has added one leaf only.
C16_EqualToManyIsContained ==
    LET leaves == AllLeaves(Specification(builder))
        calls  == fhist.calls
    IN  /\ \A k \in 1..Len(calls) :
                (calls[k].op = "equal_to" /\ Len(calls[k].values) >= 2)
                    => ValueContained(calls[k].attr, calls[k].values) \in Range(leaves)
        /\ \A j \in 1..Len(leaves) :
                leaves[j].op = "equal_to"
                    => \E k \in 1..Len(calls) :
                            /\ calls[k].op \in {"equal_to", "not_equal_to"}
                            /\ calls[k].attr = leaves[j].attr
                            /\ calls[k].values = leaves[j].values
        /\ Len(leaves) = LeavesExpected(calls)

\* C16 witness: build_equal_to("age", [1, 2]) then a call with two values for
\* "name", as in test_build_conjunction_with_disjunction.
C16_Witness ==
    /\ fhist.calls = <<[op |-> "equal_to", attr |-> "age", values |-> <<1, 2>>],
                       [op |-> "greater_than", attr |-> "name", values |-> <<1, 2>>]>>
    /\ fhist.last = "get"
    /\ fhist.ret = Conjunction(ValueContained("age", <<1, 2>>),
                               Disjunction(Leaf("greater_than", "name", <<1>>),
                                           Leaf("greater_than", "name", <<2>>)))

\* The specification the tests expect of one call build_<op>(attr, [v]) on a
\* fresh builder: the leaf of the operator, for in_range from the two bounds
\* of the tuple, and its negation for build_not_<op>.
ExpectedOfOne(op, attr_name, v) ==
    CASE op = "in_range"        -> ValueInRange(attr_name, v[1], v[2])
      [] op = "not_in_range"    -> Negation(ValueInRange(attr_name, v[1], v[2]))
      [] op = "not_equal_to"    -> Negation(Leaf("equal_to", attr_name, <<v>>))
      [] op = "not_starts_with" -> Negation(Leaf("starts_with", attr_name, <<v>>))
      [] op = "not_ends_with"   -> Negation(Leaf("ends_with", attr_name, <<v>>))
      [] op = "not_contains"    -> Negation(Leaf("contains", attr_name, <<v>>))
      [] OTHER                  -> Leaf(op, attr_name, <<v>>)

\* C17: on a fresh builder one call build_<op>(attr, [v]) makes
\* get_specification() return the leaf of kind <op> on (attr, v), for
\* in_range the leaf ValueInRange(attr, lower, upper), and one call
\* build_not_<op>(attr, [v]) the negation of that leaf, for every operator.
C17_OneCallOneLeaf ==
    (/\ Len(fhist.calls) = 1
     /\ Len(fhist.calls[1].values) = 1
     /\ fhist.last = "get")
        => fhist.ret = ExpectedOfOne(fhist.calls[1].op, fhist.calls[1].attr,
                                     fhist.calls[1].values[1])

\* C17 witness: build_not_in_range("age", [(1, 2)]) and then
\* get_specification(), as in test_build_not_in_range.
C17_Witness ==
    /\ Len(fhist.calls) = 1
    /\ fhist.calls[1].op = "not_in_range"
    /\ fhist.calls[1].attr = "age"
    /\ fhist.calls[1].values = << <<1, 2>> >>
    /\ fhist.last = "get"
    /\ fhist.ret = Negation(ValueInRange("age", 1, 2))

\* C18: get_specification() returns None when no build call was made, and
\* it only reads: a call leaves the builder and what was built as they are,
\* whenever it is made, and a call right after another returns the same
\* specification.
C18_GetSpecificationReadsOnly ==
    [][fhist'.last = "get"
        => /\ builder' = builder
           /\ fhist'.calls = fhist.calls
           /\ fhist'.ret = Specification(builder)
           /\ fhist.calls = << >> => fhist'.ret = NoSpec
           /\ fhist.last = "get" => fhist'.ret = fhist.ret
      ]_vars

\* C18 witness: get_specification() called after two build calls for the
\* same attribute name returned the disjunction that is in the builder.
C18_Witness ==
    /\ fhist.calls = <<[op |-> "equal_to", attr |-> "age", values |-> <<1>>],
                       [op |-> "equal_to", attr |-> "age", values |-> <<2>>]>>
    /\ fhist.last = "get"
    /\ fhist.ret = Disjunction(Leaf("equal_to", "age", <<1>>),
                               Leaf("equal_to", "age", <<2>>))
    /\ Specification(builder) = fhist.ret

\* ceil(total / size), for total >= 0 and size > 0: the least n with
\* n * size >= total.
Ceil(total, size) ==
    CHOOSE n \in 0..total : n * size >= total /\ \A m \in 0..(n - 1) : m * size < total

RequestedStart ==
    IF request.params.start.kind = "none" THEN 0 ELSE request.params.start.value

RequestedSize ==
    IF request.params.size.kind = "none"
    THEN context.default_limit ELSE request.params.size.value

Min(a, b) == IF a < b THEN a ELSE b

\* The view got as far as slicing the collection.
Sliced == request.called /\ request.result # "error"

\* C21: the slice the view sets on the collection starts at the requested
\* start (0 when absent) and has the length min(requested size, max_limit),
\* the requested size being default_limit when absent; so the window is never
\* longer than max_limit and the clamp lowers stop only.
C21_SliceClamped ==
    Sliced =>
        /\ context.slice.start = RequestedStart
        /\ context.slice.stop - context.slice.start
               = Min(RequestedSize, context.max_limit)
        /\ context.slice.stop - context.slice.start <= context.max_limit
        /\ context.slice.stop <= RequestedStart + RequestedSize

\* A request for more than max_limit items from a start above 0 was clamped.
C21_Witness ==
    /\ Sliced
    /\ request.params.start.kind = "text"
    /\ request.params.size.kind = "text"
    /\ request.params.start.value > 0
    /\ request.params.size.value > context.max_limit
    /\ context.slice = [start |-> request.params.start.value,
                        stop |-> request.params.start.value + context.max_limit]

\* C22: new(rc) on a repository whose store has no session factory fails with
\* RuntimeError ('Repository has not been initialized yet.') and creates no
\* aggregate and no session; once the store has a session factory, new(rc)
\* creates one aggregate for rc over a session made by that factory.
C22_NewNeedsSessionFactory ==
    [][stores'.last.op = "new" =>
        LET s == stores'.last.store
        IN  IF ~stores.inst[s].made
            THEN /\ stores'.last.exc = "RuntimeError"
                 /\ stores' = [stores EXCEPT !.last = stores'.last]
            ELSE /\ stores'.last.exc = "ok"
                 /\ Len(stores'.aggregates) = Len(stores.aggregates) + 1
                 /\ SubSeq(stores'.aggregates, 1, Len(stores.aggregates))
                        = stores.aggregates
                 /\ LET agg == stores'.aggregates[Len(stores'.aggregates)]
                    IN  /\ agg.entity_cls \in Resources
                        /\ agg.session = [store |-> s, bind |-> stores.inst[s].bind]
                 /\ stores' = [stores EXCEPT !.last = stores'.last,
                                             !.aggregates = stores'.aggregates]]_vars

\* new failed on a store without a session factory after it had succeeded on
\* a store with one.
C22_Witness ==
    /\ stores.last.op = "new"
    /\ stores.last.exc = "RuntimeError"
    /\ ~stores.inst[stores.last.store].made
    /\ Len(stores.aggregates) = 1
    /\ stores.inst[stores.aggregates[1].session.store].made

\* C23: for every store name, whatever the sequence of _initialize calls on
\* the instances of that name, the engine and the metadata are each made and
\* registered at most once; a later call finds the registered engine and
\* metadata unchanged, and after each call that returns the registered
\* metadata is bound to the registered engine.
C23_EngineAndMetadataOnce ==
    [][/\ \A n \in StoreNames :
            /\ stores'.made.engine[n] <= 1
            /\ stores'.made.metadata[n] <= 1
            /\ n \in DOMAIN stores.engines =>
                   /\ n \in DOMAIN stores'.engines
                   /\ stores'.engines[n] = stores.engines[n]
                   /\ stores'.made.engine[n] = stores.made.engine[n]
            /\ n \in DOMAIN stores.metadata =>
                   /\ n \in DOMAIN stores'.metadata
                   /\ stores'.metadata[n].serial = stores.metadata[n].serial
                   /\ stores'.made.metadata[n] = stores.made.metadata[n]
       /\ (stores'.last.op = "_initialize" /\ stores'.last.exc = "ok") =>
            LET n == StoreName(stores'.last.store)
            IN  /\ n \in DOMAIN stores'.engines
                /\ n \in DOMAIN stores'.metadata
                /\ stores'.metadata[n].bind = stores'.engines[n]]_vars

\* A second instance of a name was initialized after the first one had made
\* and registered the engine and the metadata of that name.
C23_Witness ==
    /\ stores.last = [op |-> "_initialize", store |-> "s2", exc |-> "ok"]
    /\ "a" \in DOMAIN stores.engines
    /\ "a" \in DOMAIN stores.metadata
    /\ stores.inst["s1"].bind = stores.engines["a"]
    /\ stores.metadata["a"].bind = stores.engines["a"]
    /\ stores.made.engine["a"] = 1
    /\ stores.made.metadata["a"] = 1

\* C24: remove(c) of a collection that was added removes both registrations:
\* afterwards get by class and get by name return the default and len is one
\* less; remove of a collection that is not registered raises ValueError and
\* changes nothing.
C24_RemoveUnregisters ==
    [][service'.last.op = "remove" =>
        LET cls == Resolve(service'.last.arg)
            coll == get_collection(cls)
        IN  IF cls \in service.registered
            THEN /\ service'.last.exc = "ok"
                 /\ Service_get(service'.collections, ClassKey(cls)) = Default
                 /\ Service_get(service'.collections, NameKey(coll.name)) = Default
                 /\ Service_len(service'.collections)
                        = Service_len(service.collections) - 1
            ELSE /\ service'.last.exc = "ValueError"
                 /\ service'.collections = service.collections]_vars

\* What the dictionary of a service with the given registered classes holds.
TwoKeysEach(d, registered) ==
    /\ DOMAIN d = {ClassKey(c) : c \in registered}
                  \cup {NameKey(get_collection(c).name) : c \in registered}
    /\ Cardinality(DOMAIN d) = 2 * Cardinality(registered)
    /\ \A c \in registered :
           /\ d[ClassKey(c)] = get_collection(c)
           /\ d[NameKey(get_collection(c).name)] = get_collection(c)
           /\ Service_iter_count(d, get_collection(c)) = 1
    /\ \A k \in DOMAIN d : d[k].cls \in registered
    /\ Service_len(d) = Cardinality(registered)

\* C25: after any sequence of add and remove calls every registered
\* collection is stored under exactly two keys, its class and its name, so
\* len(service) is the number of registered collections and iteration yields
\* each of them once; an add whose class or name is already registered raises
\* ValueError and leaves the dictionary as it was.
C25_TwoKeysPerCollection ==
    [][/\ TwoKeysEach(service'.collections, service'.registered)
       /\ service'.last.op = "add" =>
            LET cls == Resolve(service'.last.arg)
                coll == get_collection(cls)
            IN  IF \/ ClassKey(cls) \in DOMAIN service.collections
                   \/ NameKey(coll.name) \in DOMAIN service.collections
                THEN /\ service'.last.exc = "ValueError"
                     /\ service'.collections = service.collections
                ELSE /\ service'.last.exc = "ok"
                     /\ cls \in service'.registered]_vars

\* Two collections are registered and an add of a class whose name is taken
\* was refused.
C25_Witness ==
    /\ service.last.op = "add"
    /\ service.last.arg = "FooArchive"
    /\ service.last.exc = "ValueError"
    /\ service.registered = {"FooCollection", "BarCollection"}
    /\ Service_len(service.collections) = 2

\* The sibling batch that the batch rules define for a relation, or None.
SiblingOf(b, rel) ==
    CASE rel = "first" -> Batch_first(b)
      [] rel = "previous" -> Batch_previous(b)
      [] rel = "next" -> Batch_next(b)
      [] rel = "last" -> Batch_last(b)

\* C26: for every start, size > 0 and total_size >= 0 each navigation link
\* the view creates (first, previous, next, last) is built from a sibling
\* batch that the batch rules define; the view never dereferences an
\* undefined sibling batch.
C26_SiblingsDefined ==
    request.called =>
        /\ request.raised # "AttributeError"
        /\ \A i \in 1..Len(context.links) :
               context.links[i].rel # "self" =>
                   LET sibling == SiblingOf(batch, context.links[i].rel)
                   IN  /\ sibling # None
                       /\ context.links[i].slice
                              = [start |-> sibling[1], stop |-> sibling[1] + sibling[2]]

\* Which of the steps of the request cannot be parsed.
BadFilter == request.params.q.kind = "malformed"

BadOrder == request.params.sort.kind = "malformed"

BadSlice ==
    request.params.start.kind = "malformed" \/ request.params.size.kind = "malformed"

\* The filter and the order the collection has when the step was reached.
FilterOf(params) ==
    IF params.q.kind = "text" THEN [kind |-> "filter", of |-> params.q.value] ELSE Unset

OrderOf(params) ==
    IF params.sort.kind = "text" THEN [kind |-> "order", of |-> params.sort.value] ELSE Unset

\* C27: the view filters, then orders, then slices; when one of the three
\* steps raises a value error the later steps are not applied, no batch is
\* computed, no link (not even 'self') is added, and the result is the error
\* response; without such an error the result is not the error response.
C27_FilterOrderSliceOrError ==
    request.called =>
        /\ request.result = "error" <=> (BadFilter \/ BadOrder \/ BadSlice)
        /\ request.result = "error" =>
               /\ request.raised = "ok"
               /\ batch = NoBatch
               /\ context.links = << >>
               /\ context.slice = NoSlice
               /\ context.filter = IF BadFilter THEN Unset ELSE FilterOf(request.params)
               /\ context.order = IF BadFilter \/ BadOrder
                                  THEN Unset ELSE OrderOf(request.params)
        /\ request.result # "error" =>
               /\ context.filter = FilterOf(request.params)
               /\ context.order = OrderOf(request.params)
               /\ context.slice # NoSlice
               /\ batch = create_batch(context)
               /\ Len(context.links) >= 1
               /\ context.links[1] = Link("self", context.slice)

\* The order could not be parsed after the filter had been applied: the
\* collection is filtered, neither ordered nor sliced, and has no link.
C27_Witness ==
    /\ request.called
    /\ request.params.q.kind = "text"
    /\ BadOrder
    /\ ~BadSlice
    /\ request.result = "error"
    /\ context.filter = FilterOf(request.params)
    /\ context.order = Unset
    /\ context.slice = NoSlice
    /\ context.links = << >>
    /\ batch = NoBatch

\* C28: whatever add, remove and replace calls were made, successful or not,
\* the indexes agree with the owning list: an identifier is in the id index
\* iff an entity with that identifier is in the entity list, a slug is in the
\* slug index iff an entity with that slug is in the list, and has_id,
\* get_by_id and get_by_slug report no entity that iterator() does not yield.
C28_IndexesAgreeWithList ==
    /\ \A i \in Ids :
           has_id(cache, i) <=> \E k \in 1..Len(cache.entities) : cache.entities[k].id = i
    /\ \A s \in Slugs :
           has_slug(cache, s) <=> \E k \in 1..Len(cache.entities) : cache.entities[k].slug = s
    /\ \A i \in Ids : has_id(cache, i) => get_by_id(cache, i) \in Range(iterator(cache))
    /\ \A s \in Slugs :
           has_slug(cache, s) => get_by_slug(cache, s) \in Range(iterator(cache))

\* C29: replace is all-or-nothing: a replace(new) that fails, for whatever
\* reason, leaves the cache as it was before the call; the old entity with
\* the id of new is still in the list and still found by get_by_id.
C29_ReplaceAllOrNothing ==
    [][(last'.op = "replace" /\ last'.exc # "ok")
        => /\ cache' = cache
           /\ has_id(cache, last'.e.id) =>
                  /\ get_by_id(cache', last'.e.id) = get_by_id(cache, last'.e.id)
                  /\ get_by_id(cache, last'.e.id) \in Range(cache.entities) =>
                         get_by_id(cache, last'.e.id) \in Range(cache'.entities)]_vars

\* The cache c holds every entity of the loader's result s (those that came
\* without id under a new id).
HoldsAllOf(c, s) ==
    \A k \in 1..Len(s) :
        \E j \in 1..Len(c.entities) :
            /\ c.entities[j].slug = s[k].slug
            /\ c.entities[j].tag = s[k].tag
            /\ s[k].id # NoneId => c.entities[j].id = s[k].id

\* C30: no caller of manager[T] obtains a cache that holds only part of what
\* the loader returned for T: an access that finds the cache of T while the
\* first access is still adding the loader's entities does not get that
\* cache before it holds them all, and a load that an add ends part-way
\* leaves no cache of T in the cache map for a later access to find.
C30_NoPartialCacheObtained ==
    [][/\ (mgr'.ret.op = "getitem" /\ mgr'.ret.exc = "ok" /\ mgr'.ret # mgr.ret) =>
            LET h == mgr'.ret.cache
            IN  mgr.loads[h].active =>
                    HoldsAllOf(mgr'.caches[h], mgr.loads[h].result)
       /\ \A h \in 1..MaxCaches :
            (mgr.loads[h].active /\ ~mgr'.loads[h].active /\ mgr'.ret.exc # "ok") =>
                \/ mgr'.cache_map[mgr.loads[h].type] # h
                \/ HoldsAllOf(mgr'.caches[h], mgr.loads[h].result)]_vars

\* The sibling batches that are defined for the batch b.
DefinedSiblings(b) ==
    {Batch_first(b), Batch_previous(b), Batch_next(b), Batch_last(b)} \ {None}

\* C31 (as claimed): for every start >= 0, size > 0 and total_size >= 0, start
\* a multiple of size or not, every sibling batch that is defined lies inside
\* the collection: its start is >= 0 and < total_size; a defined next batch
\* never starts at or beyond total_size, a defined previous batch never has a
\* negative start.
C31_SiblingsInsideAsClaimed ==
    batch # NoBatch =>
        \A sibling \in DefinedSiblings(batch) :
            /\ sibling[1] >= 0
            /\ sibling[1] < context.len

\* C31 (amended): no defined sibling has a negative start and each has the
\* size of the slice; first and last start inside the collection; next starts
\* below number * size, and inside the collection when start is a multiple
\* of size; previous starts inside the collection when start is below
\* total_size + size, as it is whenever the batch itself starts inside.
C31_SiblingsInsideAmended ==
    batch # NoBatch =>
        LET size == context.slice.stop - context.slice.start
            start == context.slice.start
            total == context.len
        IN  /\ \A sibling \in DefinedSiblings(batch) :
                   sibling[1] >= 0 /\ sibling[2] = size
            /\ Batch_first(batch) # None => Batch_first(batch)[1] < total
            /\ Batch_last(batch) # None => Batch_last(batch)[1] < total
            /\ Batch_next(batch) # None =>
                   /\ Batch_next(batch)[1] < Ceil(total, size) * size
                   /\ start % size = 0 => Batch_next(batch)[1] < total
            /\ Batch_previous(batch) # None =>
                   /\ start < total + size => Batch_previous(batch)[1] < total
                   /\ start >= total + size => Batch_previous(batch)[1] >= total

\* A batch whose start is no multiple of its size has a next batch that
\* starts at the end of the collection, and a previous, a first and a last
\* batch inside it.
C31_Witness ==
    /\ batch = Batch(5, 4, 9)
    /\ context.len = 9
    /\ Batch_next(batch) = <<9, 4>>
    /\ Batch_previous(batch) = <<1, 4>>
    /\ Batch_first(batch) = <<0, 4>>
    /\ Batch_last(batch) = <<8, 4>>

====
